---- MODULE Spec2Model ----
(***************************************************************************)
(* cfd_python: the status translator raise_for_status                      *)
(* (cfd_python/_exceptions.py) together with the native error slot it      *)
(* reads (get_last_error / get_error_string / get_last_status /            *)
(* clear_error of the compiled extension).                                 *)
(*                                                                         *)
(* Text is modelled as a sequence of one-character strings, so that        *)
(* concatenation, prefixes and the decimal rendering of a status code are  *)
(* computed, not assumed.                                                  *)
(***************************************************************************)
EXTENDS Integers, Sequences, FiniteSets, TLC

VARIABLES
    extLoaded,   \* TRUE iff the compiled extension's names are attributes of the package
    lastStatus,  \* native slot: the status get_last_status() returns
    lastError,   \* native slot: the text get_last_error() returns (<<>>: none recorded)
    history,     \* native operations run since the caller last moved on
    outcome,     \* what the latest raise_for_status call did
    repeat,      \* TRUE iff the latest raise_for_status call repeated the call before
                 \* it (same code and context, no native operation in between)
    made,        \* the latest error instance constructed directly by a caller
    env,         \* what the package finds when imported: compiled module, files, metadata
    loadResult,  \* what the latest direct load_extension() call did
    pkg,         \* the cfd_python package: not imported, imported, or import failed
    versionResult,  \* what the latest direct get_version() call did
    existsResult,   \* <<>> or the value of the latest _check_extension_exists() call
    dev,            \* a run of dev_build.py: its command, files (fsBefore: the files
                    \* when clean() was entered), progress and exit
    dist,           \* a run of setup_distribution.main(): the steps run and the result
    study           \* a run of an example caller: its position, the calls it made
                    \* into cfd_python, the samples run and how it ended

translatorVars == <<extLoaded, lastStatus, lastError, history, outcome, repeat>>

loaderVars == <<env, loadResult, pkg>>

\* The runs of the scripts around the package.
scriptVars == <<dev, dist, study>>

\* Direct calls of the helpers, and the scripts.
restVars == <<versionResult, existsResult, scriptVars>>

\* The package's own state.
packageVars == <<translatorVars, made, loaderVars, versionResult, existsResult>>

vars == <<extLoaded, lastStatus, lastError, history, outcome, repeat, made, env, loadResult, pkg,
          versionResult, existsResult, dev, dist, study>>

(***************************************************************************)
(* Bounds of the model.                                                    *)
(***************************************************************************)
MaxNeg == 10   \* status codes -MaxNeg .. -1 are tried (plus -42 and -99)
MaxPos == 2    \* status codes 0 .. MaxPos are tried
MaxOps == 2    \* native operations between two translator calls

Codes == (-MaxNeg .. MaxPos) \cup {-42, -99}

Contexts ==
    { <<>>,
      <<"s", "i", "m", "u", "l", "a", "t", "i", "o", "n">>,
      <<"d", "u", "r", "i", "n", "g", " ", "a", "l", "l", "o", "c", "a", "t", "i", "o", "n">> }

\* Messages a failing native operation records in the slot.
NativeMessages ==
    { <<"C", "F", "L", " ", "v", "i", "o", "l", "a", "t", "e", "d">>,
      <<"a", "l", "l", "o", "c", " ", "f", "a", "i", "l", "e", "d">> }

\* Status codes the modelled native operations fail with.
NativeFailCodes == {-2, -6, -9}

(***************************************************************************)
(* Text helpers: str(int) as Python's f"{status_code}" renders it.         *)
(***************************************************************************)
Digit(d) == <<"0", "1", "2", "3", "4", "5", "6", "7", "8", "9">>[d + 1]

RECURSIVE NatToStr(_)
NatToStr(n) == IF n < 10 THEN <<Digit(n)>>
               ELSE NatToStr(n \div 10) \o <<Digit(n % 10)>>

IntToStr(n) == IF n < 0 THEN <<"-">> \o NatToStr(-n) ELSE NatToStr(n)

(***************************************************************************)
(* The native layer (compiled extension).                                  *)
(***************************************************************************)
\* get_error_string(code): static, code-indexed, never empty.
GetErrorString(code) ==
    CASE code = 0  -> <<"S", "u", "c", "c", "e", "s", "s">>
      [] code = -1 -> <<"G", "e", "n", "e", "r", "i", "c", " ", "e", "r", "r", "o", "r">>
      [] code = -2 -> <<"O", "u", "t", " ", "o", "f", " ", "m", "e", "m", "o", "r", "y">>
      [] code = -3 -> <<"I", "n", "v", "a", "l", "i", "d", " ", "a", "r", "g", "u", "m", "e", "n", "t">>
      [] code = -4 -> <<"I", "/", "O", " ", "e", "r", "r", "o", "r">>
      [] code = -5 -> <<"U", "n", "s", "u", "p", "p", "o", "r", "t", "e", "d">>
      [] code = -6 -> <<"D", "i", "v", "e", "r", "g", "e", "d">>
      [] code = -7 -> <<"M", "a", "x", " ", "i", "t", "e", "r", "a", "t", "i", "o", "n", "s">>
      [] OTHER     -> <<"U", "n", "k", "n", "o", "w", "n", " ", "e", "r", "r", "o", "r">>

\* How a native query misbehaves during one translator call: not at all, or
\* the named query raises the named Python exception.
NoFault == [at |-> "none", exc |-> "none"]

QueryExceptions == {"AttributeError", "RuntimeError", "UnicodeDecodeError"}

Faults ==
    {NoFault} \cup
    [at : {"get_last_error", "get_error_string"}, exc : QueryExceptions]

(***************************************************************************)
(* cfd_python/_exceptions.py                                               *)
(***************************************************************************)
ErrorClasses ==
    {"CFDError", "CFDMemoryError", "CFDInvalidError", "CFDIOError",
     "CFDUnsupportedError", "CFDDivergedError", "CFDMaxIterError"}

\* Mutant: every subclass derives from CFDError alone.
BasesSingleInheritance(cls) ==
    CASE cls = "CFDError"              -> {"Exception"}
      [] cls \in ErrorClasses          -> {"CFDError"}
      [] cls = "NotImplementedError"   -> {"RuntimeError"}
      [] cls = "ModuleNotFoundError"   -> {"ImportError"}
      [] cls = "PackageNotFoundError"  -> {"ModuleNotFoundError"}
      [] cls = "KeyboardInterrupt"     -> {"BaseException"}
      [] cls = "ExtensionNotBuiltError" -> {"ImportError"}
      [] cls = "UnicodeDecodeError"    -> {"ValueError"}
      [] cls = "Exception"             -> {"BaseException"}
      [] cls = "BaseException"         -> {}
      [] OTHER                         -> {"Exception"}

\* The direct base classes: the class statements of _exceptions.py and
\* _loader.py, and Python's built-in exception hierarchy below them.
Bases(cls) ==
    CASE cls = "CFDError"              -> {"Exception"}
      [] cls = "CFDMemoryError"        -> {"CFDError", "MemoryError"}
      [] cls = "CFDInvalidError"       -> {"CFDError", "ValueError"}
      [] cls = "CFDIOError"            -> {"CFDError", "OSError"}
      [] cls = "CFDUnsupportedError"   -> {"CFDError", "NotImplementedError"}
      [] cls = "CFDDivergedError"      -> {"CFDError"}
      [] cls = "CFDMaxIterError"       -> {"CFDError"}
      [] cls = "NotImplementedError"   -> {"RuntimeError"}
      [] cls = "ModuleNotFoundError"   -> {"ImportError"}
      [] cls = "PackageNotFoundError"  -> {"ModuleNotFoundError"}
      [] cls = "KeyboardInterrupt"     -> {"BaseException"}
      [] cls = "ExtensionNotBuiltError" -> {"ImportError"}
      [] cls = "UnicodeDecodeError"    -> {"ValueError"}
      [] cls = "Exception"             -> {"BaseException"}
      [] cls = "BaseException"         -> {}
      [] OTHER                         -> {"Exception"}

\* issubclass(c, d)
RECURSIVE IsSubclass(_, _)
IsSubclass(c, d) == c = d \/ \E b \in Bases(c) : IsSubclass(b, d)

\* The class a name in an except clause denotes: IOError is OSError.
ClassNamed(name) == IF name = "IOError" THEN "OSError" ELSE name

\* An instance of cls is caught by "except <handler>".
Catchable(cls, handler) == IsSubclass(cls, ClassNamed(handler))

\* CFDError.__init__(message, status_code) and the str() of the instance.
NewError(cls, message, status_code) ==
    [cls         |-> cls,
     status_code |-> status_code,
     message     |-> message,
     str         |-> message \o <<" ", "(", "s", "t", "a", "t", "u", "s", "=">>
                             \o IntToStr(status_code) \o <<")">>]

\* Mutant: an omitted status_code defaults to the class's own code.
ConstructErrorClassDefault(cls, args) ==
    NewError(cls, args[1],
             IF Len(args) > 1 THEN args[2]
             ELSE CASE cls = "CFDMemoryError"      -> -2
                    [] cls = "CFDInvalidError"     -> -3
                    [] cls = "CFDIOError"          -> -4
                    [] cls = "CFDUnsupportedError" -> -5
                    [] cls = "CFDDivergedError"    -> -6
                    [] cls = "CFDMaxIterError"     -> -7
                    [] OTHER                       -> -1)

\* cls(message) or cls(message, status_code): __init__ is inherited from
\* CFDError by every class, with status_code: int = -1.
ConstructError(cls, args) ==
    NewError(cls, args[1], IF Len(args) > 1 THEN args[2] ELSE -1)

\* _STATUS_TO_EXCEPTION
STATUS_TO_EXCEPTION ==
    (-1 :> "CFDError") @@ (-2 :> "CFDMemoryError") @@ (-3 :> "CFDInvalidError") @@
    (-4 :> "CFDIOError") @@ (-5 :> "CFDUnsupportedError") @@
    (-6 :> "CFDDivergedError") @@ (-7 :> "CFDMaxIterError")

\* Mutant: the entries of -6 and -7 exchanged.
ExceptionClassForSwapped(code) ==
    IF code = -6 THEN "CFDMaxIterError"
    ELSE IF code = -7 THEN "CFDDivergedError"
    ELSE IF code \in DOMAIN STATUS_TO_EXCEPTION THEN STATUS_TO_EXCEPTION[code]
    ELSE "CFDError"

\* _STATUS_TO_EXCEPTION.get(status_code, CFDError)
ExceptionClassFor(code) ==
    IF code \in DOMAIN STATUS_TO_EXCEPTION THEN STATUS_TO_EXCEPTION[code]
    ELSE "CFDError"

\* Mutant: zero taken for a failure.
IsSuccessStrict(code) == code > 0

\* if status_code >= 0: return
IsSuccess(code) == code >= 0

\* Mutant: except AttributeError only.
IsCaughtAttributeOnly(exc) == exc = "AttributeError"

\* except (ImportError, AttributeError): ModuleNotFoundError is a subclass
\* of ImportError; nothing else is caught.
IsCaught(exc) == exc \in {"ImportError", "ModuleNotFoundError", "AttributeError"}

\* f"CFD error code {status_code}"
CodeOnlyMessage(code) ==
    <<"C", "F", "D", " ", "e", "r", "r", "o", "r", " ", "c", "o", "d", "e", " ">>
        \o IntToStr(code)

Call(fn, exc) == [fn |-> fn, exc |-> exc]

\* Mutant: the truthiness test on get_last_error() inverted.
TryResolveInverted(code, loaded, slotError, fault) ==
    IF ~loaded
    THEN [exc |-> "ImportError", msg |-> <<>>, calls |-> <<>>]
    ELSE IF slotError = <<>>
    THEN [exc |-> "none", msg |-> slotError,
          calls |-> <<Call("get_last_error", "none")>>]
    ELSE [exc |-> "none", msg |-> GetErrorString(code),
          calls |-> <<Call("get_last_error", "none"),
                      Call("get_error_string", "none")>>]

\* The body of the try block: the import of the two native names, then
\* get_last_error(), then get_error_string(status_code) when the former is
\* falsy.  exc is the exception that left the block ("none": it completed).
TryResolve(code, loaded, slotError, fault) ==
    IF ~loaded
    THEN [exc |-> "ImportError", msg |-> <<>>, calls |-> <<>>]
    ELSE IF fault.at = "get_last_error"
    THEN [exc |-> fault.exc, msg |-> <<>>,
          calls |-> <<Call("get_last_error", fault.exc)>>]
    ELSE IF slotError # <<>>
    THEN [exc |-> "none", msg |-> slotError,
          calls |-> <<Call("get_last_error", "none")>>]
    ELSE IF fault.at = "get_error_string"
    THEN [exc |-> fault.exc, msg |-> <<>>,
          calls |-> <<Call("get_last_error", "none"),
                      Call("get_error_string", fault.exc)>>]
    ELSE [exc |-> "none", msg |-> GetErrorString(code),
          calls |-> <<Call("get_last_error", "none"),
                      Call("get_error_string", "none")>>]

\* Mutant: the native layer is never asked; the message is always code-only.
ResolveMessageCodeOnly(code, loaded, slotError, fault) ==
    [exc |-> "none", msg |-> CodeOnlyMessage(code), calls |-> <<>>]

\* try/except around the resolution: a caught exception yields the
\* code-only message, any other exception leaves raise_for_status.
ResolveMessage(code, loaded, slotError, fault) ==
    LET r == TryResolve(code, loaded, slotError, fault)
    IN  IF r.exc # "none" /\ IsCaught(r.exc)
        THEN [r EXCEPT !.exc = "none", !.msg = CodeOnlyMessage(code)]
        ELSE r

\* Mutant: the context put behind the message.
WithContextAppended(context, msg) ==
    IF context # <<>> THEN msg \o <<":", " ">> \o context ELSE msg

\* if context: error_msg = f"{context}: {error_msg}"
WithContext(context, msg) ==
    IF context # <<>> THEN context \o <<":", " ">> \o msg ELSE msg

\* Mutant: an unmapped code raised with the generic class's default status.
RaisedErrorRenormalized(code, msg) ==
    NewError(ExceptionClassFor(code), msg,
             IF code \in DOMAIN STATUS_TO_EXCEPTION THEN code ELSE -1)

\* exception_class(error_msg, status_code)
RaisedError(code, msg) == NewError(ExceptionClassFor(code), msg, code)

NoError == [cls |-> "none", status_code |-> 0, message |-> <<>>, str |-> <<>>]

NoOutcome ==
    [kind |-> "none", code |-> 0, context |-> <<>>, calls |-> <<>>,
     resolved |-> <<>>, exc |-> "none", error |-> NoError]

\* Mutant: a call with a context raises the generic class.
TranslateGenericWithContext(code, context, loaded, slotError, fault) ==
    IF IsSuccess(code)
    THEN [NoOutcome EXCEPT !.kind = "returned", !.code = code, !.context = context]
    ELSE LET r == ResolveMessage(code, loaded, slotError, fault)
         IN  IF r.exc # "none"
             THEN [NoOutcome EXCEPT !.kind = "escaped", !.code = code,
                                    !.context = context, !.calls = r.calls,
                                    !.exc = r.exc]
             ELSE [NoOutcome EXCEPT !.kind = "raised", !.code = code,
                                    !.context = context, !.calls = r.calls,
                                    !.resolved = r.msg,
                                    !.error =
                                        IF context # <<>>
                                        THEN NewError("CFDError", WithContext(context, r.msg), code)
                                        ELSE RaisedError(code, WithContext(context, r.msg))]

\* One call raise_for_status(code, context): kind is "returned" (no
\* exception), "raised" (the CFDError instance in error) or "escaped"
\* (another exception, exc, left the function).  resolved is error_msg
\* before the context is applied; calls are the native calls made.
Translate(code, context, loaded, slotError, fault) ==
    IF IsSuccess(code)
    THEN [NoOutcome EXCEPT !.kind = "returned", !.code = code, !.context = context]
    ELSE LET r == ResolveMessage(code, loaded, slotError, fault)
         IN  IF r.exc # "none"
             THEN [NoOutcome EXCEPT !.kind = "escaped", !.code = code,
                                    !.context = context, !.calls = r.calls,
                                    !.exc = r.exc]
             ELSE [NoOutcome EXCEPT !.kind = "raised", !.code = code,
                                    !.context = context, !.calls = r.calls,
                                    !.resolved = r.msg,
                                    !.error = RaisedError(code, WithContext(context, r.msg))]

(***************************************************************************)
(* _loader.py, _version.py and the import block of __init__.py.            *)
(* A name is the sequence of its parts between underscores: run_simulation *)
(* is <<"run", "simulation">> and __all__ is <<"", "", "all", "", "">>.    *)
(* A file name is the sequence of its characters.  A dict is the sequence  *)
(* of its items in insertion order; a namespace is a function on names.    *)
(***************************************************************************)
\* str.startswith and str.endswith
StartsWith(s, p) == Len(p) <= Len(s) /\ SubSeq(s, 1, Len(p)) = p

EndsWith(s, t) == Len(t) <= Len(s) /\ SubSeq(s, Len(s) - Len(t) + 1, Len(s)) = t

\* An object: the module that defines it and its name there.
Obj(origin, name) == [origin |-> origin, name |-> name]

\* A str literal of the source.
Literal(text) == Obj("str", <<text>>)

\* getattr(_cfd_module, name): the native module's value of the name.
Native(name) == Obj("cfd_python.cfd_python", name)

\* The names of "from .cfd_python import (...)" in load_extension.
ImportedNames ==
    << <<"BC", "BACKEND", "AUTO">>, <<"BC", "BACKEND", "CUDA">>, <<"BC", "BACKEND", "OMP">>,
       <<"BC", "BACKEND", "SCALAR">>, <<"BC", "BACKEND", "SIMD">>, <<"BC", "EDGE", "BOTTOM">>,
       <<"BC", "EDGE", "LEFT">>, <<"BC", "EDGE", "RIGHT">>, <<"BC", "EDGE", "TOP">>,
       <<"BC", "TYPE", "DIRICHLET">>, <<"BC", "TYPE", "INLET">>, <<"BC", "TYPE", "NEUMANN">>,
       <<"BC", "TYPE", "NOSLIP">>, <<"BC", "TYPE", "OUTLET">>, <<"BC", "TYPE", "PERIODIC">>,
       <<"CFD", "ERROR">>, <<"CFD", "ERROR", "DIVERGED">>, <<"CFD", "ERROR", "INVALID">>,
       <<"CFD", "ERROR", "IO">>, <<"CFD", "ERROR", "MAX", "ITER">>,
       <<"CFD", "ERROR", "NOMEM">>, <<"CFD", "ERROR", "UNSUPPORTED">>, <<"CFD", "SUCCESS">>,
       <<"OUTPUT", "CSV", "CENTERLINE">>, <<"OUTPUT", "CSV", "STATISTICS">>,
       <<"OUTPUT", "CSV", "TIMESERIES">>, <<"OUTPUT", "FULL", "FIELD">>,
       <<"OUTPUT", "VELOCITY">>, <<"OUTPUT", "VELOCITY", "MAGNITUDE">>,
       <<"bc", "apply", "dirichlet">>, <<"bc", "apply", "inlet", "parabolic">>,
       <<"bc", "apply", "inlet", "uniform">>, <<"bc", "apply", "noslip">>,
       <<"bc", "apply", "outlet", "scalar">>, <<"bc", "apply", "outlet", "velocity">>,
       <<"bc", "apply", "scalar">>, <<"bc", "apply", "velocity">>,
       <<"bc", "backend", "available">>, <<"bc", "get", "backend">>,
       <<"bc", "get", "backend", "name">>, <<"bc", "set", "backend">>, <<"clear", "error">>,
       <<"create", "grid">>, <<"get", "default", "solver", "params">>,
       <<"get", "error", "string">>, <<"get", "last", "error">>, <<"get", "last", "status">>,
       <<"get", "solver", "info">>, <<"has", "solver">>, <<"list", "solvers">>,
       <<"run", "simulation">>, <<"run", "simulation", "with", "params">>,
       <<"set", "output", "dir">>, <<"write", "csv", "timeseries">>,
       <<"write", "vtk", "scalar">>, <<"write", "vtk", "vector">> >>

\* The keys of the exports dict literal of load_extension, each bound to
\* the imported local of the same name.
ExportKeys ==
    << <<"run", "simulation">>, <<"run", "simulation", "with", "params">>,
       <<"create", "grid">>, <<"get", "default", "solver", "params">>, <<"list", "solvers">>,
       <<"has", "solver">>, <<"get", "solver", "info">>, <<"set", "output", "dir">>,
       <<"write", "vtk", "scalar">>, <<"write", "vtk", "vector">>,
       <<"write", "csv", "timeseries">>, <<"OUTPUT", "VELOCITY">>,
       <<"OUTPUT", "VELOCITY", "MAGNITUDE">>, <<"OUTPUT", "FULL", "FIELD">>,
       <<"OUTPUT", "CSV", "TIMESERIES">>, <<"OUTPUT", "CSV", "CENTERLINE">>,
       <<"OUTPUT", "CSV", "STATISTICS">>, <<"CFD", "SUCCESS">>, <<"CFD", "ERROR">>,
       <<"CFD", "ERROR", "NOMEM">>, <<"CFD", "ERROR", "INVALID">>, <<"CFD", "ERROR", "IO">>,
       <<"CFD", "ERROR", "UNSUPPORTED">>, <<"CFD", "ERROR", "DIVERGED">>,
       <<"CFD", "ERROR", "MAX", "ITER">>, <<"get", "last", "error">>,
       <<"get", "last", "status">>, <<"get", "error", "string">>, <<"clear", "error">>,
       <<"BC", "TYPE", "PERIODIC">>, <<"BC", "TYPE", "NEUMANN">>,
       <<"BC", "TYPE", "DIRICHLET">>, <<"BC", "TYPE", "NOSLIP">>, <<"BC", "TYPE", "INLET">>,
       <<"BC", "TYPE", "OUTLET">>, <<"BC", "EDGE", "LEFT">>, <<"BC", "EDGE", "RIGHT">>,
       <<"BC", "EDGE", "BOTTOM">>, <<"BC", "EDGE", "TOP">>, <<"BC", "BACKEND", "AUTO">>,
       <<"BC", "BACKEND", "SCALAR">>, <<"BC", "BACKEND", "OMP">>, <<"BC", "BACKEND", "SIMD">>,
       <<"BC", "BACKEND", "CUDA">>, <<"bc", "get", "backend">>,
       <<"bc", "get", "backend", "name">>, <<"bc", "set", "backend">>,
       <<"bc", "backend", "available">>, <<"bc", "apply", "scalar">>,
       <<"bc", "apply", "velocity">>, <<"bc", "apply", "dirichlet">>,
       <<"bc", "apply", "noslip">>, <<"bc", "apply", "inlet", "uniform">>,
       <<"bc", "apply", "inlet", "parabolic">>, <<"bc", "apply", "outlet", "scalar">>,
       <<"bc", "apply", "outlet", "velocity">> >>

\* _CORE_EXPORTS
CORE_EXPORTS ==
    << <<"run", "simulation">>, <<"run", "simulation", "with", "params">>,
       <<"create", "grid">>, <<"get", "default", "solver", "params">>, <<"list", "solvers">>,
       <<"has", "solver">>, <<"get", "solver", "info">>, <<"set", "output", "dir">>,
       <<"write", "vtk", "scalar">>, <<"write", "vtk", "vector">>,
       <<"write", "csv", "timeseries">>, <<"OUTPUT", "VELOCITY">>,
       <<"OUTPUT", "VELOCITY", "MAGNITUDE">>, <<"OUTPUT", "FULL", "FIELD">>,
       <<"OUTPUT", "CSV", "TIMESERIES">>, <<"OUTPUT", "CSV", "CENTERLINE">>,
       <<"OUTPUT", "CSV", "STATISTICS">>, <<"CFD", "SUCCESS">>, <<"CFD", "ERROR">>,
       <<"CFD", "ERROR", "NOMEM">>, <<"CFD", "ERROR", "INVALID">>, <<"CFD", "ERROR", "IO">>,
       <<"CFD", "ERROR", "UNSUPPORTED">>, <<"CFD", "ERROR", "DIVERGED">>,
       <<"CFD", "ERROR", "MAX", "ITER">>, <<"get", "last", "error">>,
       <<"get", "last", "status">>, <<"get", "error", "string">>, <<"clear", "error">>,
       <<"BC", "TYPE", "PERIODIC">>, <<"BC", "TYPE", "NEUMANN">>,
       <<"BC", "TYPE", "DIRICHLET">>, <<"BC", "TYPE", "NOSLIP">>, <<"BC", "TYPE", "INLET">>,
       <<"BC", "TYPE", "OUTLET">>, <<"BC", "EDGE", "LEFT">>, <<"BC", "EDGE", "RIGHT">>,
       <<"BC", "EDGE", "BOTTOM">>, <<"BC", "EDGE", "TOP">>, <<"BC", "BACKEND", "AUTO">>,
       <<"BC", "BACKEND", "SCALAR">>, <<"BC", "BACKEND", "OMP">>, <<"BC", "BACKEND", "SIMD">>,
       <<"BC", "BACKEND", "CUDA">>, <<"bc", "get", "backend">>,
       <<"bc", "get", "backend", "name">>, <<"bc", "set", "backend">>,
       <<"bc", "backend", "available">>, <<"bc", "apply", "scalar">>,
       <<"bc", "apply", "velocity">>, <<"bc", "apply", "dirichlet">>,
       <<"bc", "apply", "noslip">>, <<"bc", "apply", "inlet", "uniform">>,
       <<"bc", "apply", "inlet", "parabolic">>, <<"bc", "apply", "outlet", "scalar">>,
       <<"bc", "apply", "outlet", "velocity">>, <<"calculate", "field", "stats">>,
       <<"compute", "velocity", "magnitude">>, <<"compute", "flow", "statistics">>,
       <<"BACKEND", "SCALAR">>, <<"BACKEND", "SIMD">>, <<"BACKEND", "OMP">>,
       <<"BACKEND", "CUDA">>, <<"backend", "is", "available">>, <<"backend", "get", "name">>,
       <<"list", "solvers", "by", "backend">>, <<"get", "available", "backends">> >>

Range(s) == {s[i] : i \in DOMAIN s}

\* list(d.keys())
Keys(d) == [i \in DOMAIN d |-> d[i].key]

KeySet(d) == Range(Keys(d))

\* d[k]: the last item stored under the key.
Lookup(d, k) ==
    d[CHOOSE i \in DOMAIN d :
          /\ d[i].key = k
          /\ \A j \in DOMAIN d : d[j].key = k => j <= i].value

\* globals().update(d)
Update(g, d) ==
    [n \in (DOMAIN g) \cup KeySet(d) |-> IF n \in KeySet(d) THEN Lookup(d, n) ELSE g[n]]

\* An exception instance; cause is <<>> or the one chained exception.
NewException(cls, message, cause) ==
    [cls |-> cls, message |-> message, cause |-> cause]

\* The environment of the import: whether the compiled module is found,
\* whether loading it fails, the attributes it has, the files of the
\* package directory, the installed distribution's version, if any, and
\* whether importlib.metadata can be imported.
NoEnv ==
    [observed |-> FALSE, found |-> FALSE, loadFails |-> FALSE,
     attrs |-> {}, files |-> {}, metadata |-> <<>>, importlib |-> TRUE]

\* dir() of a module lists its names sorted.
NativeNamesSorted ==
    << <<"BC", "BACKEND", "AUTO">>, <<"BC", "BACKEND", "CUDA">>, <<"BC", "BACKEND", "OMP">>,
       <<"BC", "BACKEND", "SCALAR">>, <<"BC", "BACKEND", "SIMD">>, <<"BC", "EDGE", "BOTTOM">>,
       <<"BC", "EDGE", "LEFT">>, <<"BC", "EDGE", "RIGHT">>, <<"BC", "EDGE", "TOP">>,
       <<"BC", "TYPE", "DIRICHLET">>, <<"BC", "TYPE", "INLET">>, <<"BC", "TYPE", "NEUMANN">>,
       <<"BC", "TYPE", "NOSLIP">>, <<"BC", "TYPE", "OUTLET">>, <<"BC", "TYPE", "PERIODIC">>,
       <<"CFD", "ERROR">>, <<"CFD", "ERROR", "DIVERGED">>, <<"CFD", "ERROR", "INVALID">>,
       <<"CFD", "ERROR", "IO">>, <<"CFD", "ERROR", "MAX", "ITER">>,
       <<"CFD", "ERROR", "NOMEM">>, <<"CFD", "ERROR", "UNSUPPORTED">>, <<"CFD", "SUCCESS">>,
       <<"OUTPUT", "CSV", "CENTERLINE">>, <<"OUTPUT", "CSV", "STATISTICS">>,
       <<"OUTPUT", "CSV", "TIMESERIES">>, <<"OUTPUT", "FULL", "FIELD">>,
       <<"OUTPUT", "PRESSURE">>, <<"OUTPUT", "VELOCITY">>,
       <<"OUTPUT", "VELOCITY", "MAGNITUDE">>, <<"SOLVERS", "COUNT">>,
       <<"SOLVER", "EXPLICIT", "EULER">>, <<"SOLVER", "PROJECTION">>,
       <<"", "", "doc", "", "">>, <<"", "", "name", "", "">>, <<"", "", "version", "", "">>,
       <<"bc", "apply", "dirichlet">>, <<"bc", "apply", "inlet", "parabolic">>,
       <<"bc", "apply", "inlet", "uniform">>, <<"bc", "apply", "noslip">>,
       <<"bc", "apply", "outlet", "scalar">>, <<"bc", "apply", "outlet", "velocity">>,
       <<"bc", "apply", "scalar">>, <<"bc", "apply", "velocity">>,
       <<"bc", "backend", "available">>, <<"bc", "get", "backend">>,
       <<"bc", "get", "backend", "name">>, <<"bc", "set", "backend">>,
       <<"calculate", "field", "stats">>, <<"clear", "error">>, <<"create", "grid">>,
       <<"get", "default", "solver", "params">>, <<"get", "error", "string">>,
       <<"get", "last", "error">>, <<"get", "last", "status">>, <<"get", "solver", "info">>,
       <<"has", "solver">>, <<"list", "solvers">>, <<"run", "simulation">>,
       <<"run", "simulation", "with", "params">>, <<"set", "output", "dir">>,
       <<"write", "csv", "timeseries">>, <<"write", "vtk", "scalar">>,
       <<"write", "vtk", "vector">> >>

Dir(e) == SelectSeq(NativeNamesSorted, LAMBDA n : n \in e.attrs)

\* Attributes every module object has.
ModuleNames == Range(<< <<"", "", "doc", "", "">>, <<"", "", "name", "", "">> >>)

\* Solver constants a build may register.
SolverNames == Range(<< <<"SOLVER", "EXPLICIT", "EULER">>, <<"SOLVER", "PROJECTION">> >>)

\* Other attributes a build may have beside the imported names.
ExtraNames == Range(<< <<"", "", "version", "", "">>, <<"SOLVERS", "COUNT">>, <<"OUTPUT", "PRESSURE">>,
       <<"calculate", "field", "stats">> >>)

\* Names a stale build may lack.
MissingChoices == {{}, {<<"bc", "apply", "dirichlet">>}}

NativeAttrSets ==
    {((Range(ImportedNames) \ missing) \cup ModuleNames) \cup (solvers \cup extras) :
        missing \in MissingChoices, solvers \in SUBSET SolverNames,
        extras \in SUBSET ExtraNames}

\* Names of files met in the package directory.
File ==
    [init |->
         <<"_", "_", "i", "n", "i", "t", "_", "_", ".", "p", "y">>,
     so |->
         <<"c", "f", "d", "_", "p", "y", "t", "h", "o", "n", ".", "s", "o">>,
     pyd |->
         <<"c", "f", "d", "_", "p", "y", "t", "h", "o", "n", ".", "p", "y", "d">>,
     pyi |->
         <<"c", "f", "d", "_", "p", "y", "t", "h", "o", "n", ".", "p", "y", "i">>,
     otherSo |->
         <<"l", "i", "b", "c", "f", "d", ".", "s", "o">>,
     abiPyd |->
         <<"c", "f", "d", "_", "p", "y", "t", "h", "o", "n", ".", "a", "b", "i", "3", ".", "p",
         "y", "d">>,
     abiSo |->
         <<"c", "f", "d", "_", "p", "y", "t", "h", "o", "n", ".", "c", "p", "y", "t", "h", "o",
         "n", "-", "3", "1", "1", "-", "x", "8", "6", "_", "6", "4", "-", "l", "i", "n",
         "u", "x", "-", "g", "n", "u", ".", "s", "o">>,
     otherModuleSo |->
         <<"o", "t", "h", "e", "r", "_", "m", "o", "d", "u", "l", "e", ".", "s", "o">>,
     backup |->
         <<"c", "f", "d", "_", "p", "y", "t", "h", "o", "n", ".", "s", "o", ".", "b", "a", "k">>,
     version |->
         <<"_", "v", "e", "r", "s", "i", "o", "n", ".", "p", "y">>]

\* os.listdir(package_dir)
Listings == {{File.init} \cup fs : fs \in SUBSET {File.so, File.pyd, File.pyi, File.otherSo}}

\* importlib.metadata.version("cfd-python"), when the distribution is installed.
Metadata == {<<>>, <<Literal("0.1.6")>>}

Envs ==
    {[observed |-> TRUE, found |-> FALSE, loadFails |-> FALSE,
      attrs |-> {}, files |-> fs, metadata |-> m, importlib |-> TRUE] :
        fs \in Listings, m \in Metadata}
    \cup
    {[observed |-> TRUE, found |-> TRUE, loadFails |-> TRUE,
      attrs |-> {}, files |-> fs, metadata |-> m, importlib |-> TRUE] :
        fs \in Listings, m \in Metadata}
    \cup
    {[observed |-> TRUE, found |-> TRUE, loadFails |-> FALSE,
      attrs |-> a, files |-> fs, metadata |-> m, importlib |-> TRUE] :
        a \in NativeAttrSets, fs \in Listings, m \in Metadata}

\* os.listdir(package_dir) for the direct calls of the helpers.
QueryListings ==
    {{File.init} \cup fs :
        fs \in SUBSET {File.so, File.pyi, File.abiPyd, File.abiSo, File.otherModuleSo,
                       File.backup, File.version}}

\* The compiled module with and without a __version__ attribute.
QueryAttrSets ==
    {(Range(ImportedNames) \cup ModuleNames) \cup extra : extra \in SUBSET {<<"", "", "version", "", "">>}}

\* The environments of the direct calls of the helpers.
QueryEnvs ==
    {[observed |-> TRUE, found |-> f, loadFails |-> f /\ l,
      attrs |-> IF f /\ ~l THEN a ELSE {}, files |-> fs, metadata |-> m, importlib |-> i] :
        f \in BOOLEAN, l \in BOOLEAN, a \in QueryAttrSets, fs \in QueryListings,
        m \in Metadata, i \in BOOLEAN}

\* Mutant: any file named cfd_python* counts.
CheckExtensionExistsPrefixOnly(files) ==
    \E f \in files : StartsWith(f, <<"c", "f", "d", "_", "p", "y", "t", "h", "o", "n">>)

\* Mutant: any shared library in the package directory counts.
CheckExtensionExistsAnyLibrary(files) ==
    \E f \in files : EndsWith(f, <<".", "p", "y", "d">>) \/ EndsWith(f, <<".", "s", "o">>)

\* _check_extension_exists()
CheckExtensionExists(files) ==
    \E f \in files :
        /\ StartsWith(f, <<"c", "f", "d", "_", "p", "y", "t", "h", "o", "n">>)
        /\ EndsWith(f, <<".", "p", "y", "d">>) \/ EndsWith(f, <<".", "s", "o">>)

\* "from . import cfd_python": <<>> or the ImportError it raises.
ModuleImportFailure(e) ==
    IF ~e.found
    THEN <<NewException("ImportError",
                        <<"cannot import name 'cfd_python' from 'cfd_python'">>, <<>>)>>
    ELSE IF e.loadFails
    THEN <<NewException("ImportError", <<"shared library load failed">>, <<>>)>>
    ELSE <<>>

\* The try body's imports of load_extension: <<>> or the ImportError of
\* the module import or of the first imported name the module lacks.
ImportFailure(e) ==
    IF ModuleImportFailure(e) # <<>>
    THEN ModuleImportFailure(e)
    ELSE LET lacking == SelectSeq(ImportedNames, LAMBDA n : n \notin e.attrs)
         IN  IF lacking # <<>>
             THEN <<NewException("ImportError",
                                 <<"cannot import name ">> \o lacking[1]
                                     \o <<" from 'cfd_python.cfd_python'">>, <<>>)>>
             ELSE <<>>

\* name.startswith("SOLVER_")
IsSolverName(name) == Len(name) >= 2 /\ name[1] = "SOLVER"

\* exports = {...}
Exports == [i \in DOMAIN ExportKeys |-> [key |-> ExportKeys[i], value |-> Native(ExportKeys[i])]]

\* Mutant: every public attribute of the native module is collected.
SolverConstantsAllPublic(e) ==
    LET names == SelectSeq(Dir(e), LAMBDA n : n[1] # "")
    IN  [i \in DOMAIN names |-> [key |-> names[i], value |-> Native(names[i])]]

\* The loop over dir(_cfd_module) collecting the SOLVER_* constants.
SolverConstants(e) ==
    LET names == SelectSeq(Dir(e), IsSolverName)
    IN  [i \in DOMAIN names |-> [key |-> names[i], value |-> Native(names[i])]]

\* load_extension was not called.
NoLoad == [kind |-> "none", exports |-> <<>>, solver_constants |-> <<>>, exc |-> <<>>]

LoadRaised(exc) ==
    [kind |-> "raised", exports |-> <<>>, solver_constants |-> <<>>, exc |-> <<exc>>]

TxtMayIndicate == "This may indicate a missing dependency or ABI incompatibility."

\* load_extension()
LoadExtension(e) ==
    LET failure == ImportFailure(e)
    IN  IF failure = <<>>
        THEN [kind |-> "returned", exports |-> Exports,
              solver_constants |-> SolverConstants(e), exc |-> <<>>]
        ELSE IF CheckExtensionExists(e.files)
        THEN LoadRaised(NewException("ImportError",
                 <<"Failed to load cfd_python C extension: ">> \o failure[1].message
                     \o <<"\n", "The extension file exists but could not be imported. ",
                          TxtMayIndicate>>,
                 failure))
        ELSE LoadRaised(NewException("ExtensionNotBuiltError",
                 <<"C extension not built. Run 'pip install -e .' to build.">>,
                 failure))

\* No value: the call raised or was not made.
NoValue == Obj("none", <<>>)

\* get_version() was not called.
NoVersionCall == [kind |-> "none", value |-> NoValue, exc |-> <<>>, consulted |-> FALSE]

VersionReturned(value, consulted) ==
    [kind |-> "returned", value |-> value, exc |-> <<>>, consulted |-> consulted]

VersionRaised(exc, consulted) ==
    [kind |-> "raised", value |-> NoValue, exc |-> <<exc>>, consulted |-> consulted]

\* "from importlib.metadata import PackageNotFoundError, version" and
\* version("cfd-python"): <<>> when the version is returned, else the
\* exception raised.
MetadataFailure(e) ==
    IF ~e.importlib
    THEN <<NewException("ModuleNotFoundError", <<"No module named 'importlib.metadata'">>, <<>>)>>
    ELSE IF e.metadata = <<>>
    THEN <<NewException("PackageNotFoundError", <<"cfd-python">>, <<>>)>>
    ELSE <<>>

\* The second try block of get_version: the compiled module's version.
\* The except clause catches the classes of handler.
NativeVersion(e, handler) ==
    LET failure == ModuleImportFailure(e)
    IN  IF failure = <<>>
        THEN VersionReturned(IF <<"", "", "version", "", "">> \in e.attrs
                             THEN Native(<<"", "", "version", "", "">>)
                             ELSE Literal("0.0.0"), TRUE)
        ELSE IF Catchable(failure[1].cls, handler)
        THEN VersionReturned(Literal("0.0.0-dev"), TRUE)
        ELSE VersionRaised(failure[1], TRUE)

\* Mutant: the compiled module's import failure is caught only when the
\* module is missing altogether.
GetVersionCallNarrow(e) ==
    LET failure == MetadataFailure(e)
    IN  IF failure = <<>>
        THEN VersionReturned(e.metadata[1], FALSE)
        ELSE IF \/ Catchable(failure[1].cls, "PackageNotFoundError")
                \/ Catchable(failure[1].cls, "ImportError")
        THEN NativeVersion(e, "ModuleNotFoundError")
        ELSE VersionRaised(failure[1], FALSE)

\* Mutant: the compiled module's version is preferred to the metadata.
GetVersionCallNativeFirst(e) ==
    IF ModuleImportFailure(e) = <<>>
    THEN NativeVersion(e, "ImportError")
    ELSE IF MetadataFailure(e) = <<>>
    THEN VersionReturned(e.metadata[1], TRUE)
    ELSE VersionReturned(Literal("0.0.0-dev"), TRUE)

\* get_version(): what the call does.
GetVersionCall(e) ==
    LET failure == MetadataFailure(e)
    IN  IF failure = <<>>
        THEN VersionReturned(e.metadata[1], FALSE)
        ELSE IF \/ Catchable(failure[1].cls, "PackageNotFoundError")
                \/ Catchable(failure[1].cls, "ImportError")
        THEN NativeVersion(e, "ImportError")
        ELSE VersionRaised(failure[1], FALSE)

\* get_version(): the value returned.
GetVersion(e) == GetVersionCall(e).value

Item(name, origin) == [key |-> name, value |-> Obj(origin, name)]

\* The package namespace when load_extension() is called: the names bound
\* by the two from-imports, __version__ and _CORE_EXPORTS.
NamespaceBeforeLoad(e) ==
    Update(<<>>,
           <<Item(<<"", "version">>, "cfd_python"), Item(<<"get", "version">>, "cfd_python._version"),
             [key |-> <<"", "", "version", "", "">>, value |-> GetVersion(e)],
             Item(<<"", "CORE", "EXPORTS">>, "cfd_python"),
             Item(<<"", "loader">>, "cfd_python"),
             Item(<<"ExtensionNotBuiltError">>, "cfd_python._loader"),
             Item(<<"load", "extension">>, "cfd_python._loader")>>)

\* The names bound by a successful load beside the two dicts' items: the
\* compiled submodule and the two dicts themselves.
LoadedItems ==
    <<Item(<<"cfd", "python">>, "cfd_python"), Item(<<"", "exports">>, "cfd_python"),
      Item(<<"", "solver", "constants">>, "cfd_python")>>

\* The package was not imported.
NoPackage ==
    [state |-> "not imported", loaded |-> FALSE, exc |-> <<>>, all |-> <<>>, attrs |-> <<>>]

\* Mutant: the import block catches every ImportError.
PackageImportSwallowing(e) ==
    LET r == LoadExtension(e)
    IN  IF r.kind = "returned"
        THEN [state |-> "imported", loaded |-> TRUE, exc |-> <<>>,
              all |-> CORE_EXPORTS \o Keys(r.solver_constants),
              attrs |-> Update(Update(Update(NamespaceBeforeLoad(e), LoadedItems),
                                      r.exports), r.solver_constants)]
        ELSE [state |-> "imported", loaded |-> FALSE, exc |-> <<>>,
              all |-> CORE_EXPORTS, attrs |-> NamespaceBeforeLoad(e)]

\* import cfd_python: the body of __init__.py.
PackageImport(e) ==
    LET r == LoadExtension(e)
    IN  IF r.kind = "returned"
        THEN [state |-> "imported", loaded |-> TRUE, exc |-> <<>>,
              all |-> CORE_EXPORTS \o Keys(r.solver_constants),
              attrs |-> Update(Update(Update(NamespaceBeforeLoad(e), LoadedItems),
                                      r.exports), r.solver_constants)]
        ELSE IF IsSubclass(r.exc[1].cls, "ExtensionNotBuiltError")
        THEN [state |-> "imported", loaded |-> FALSE, exc |-> <<>>,
              all |-> CORE_EXPORTS, attrs |-> NamespaceBeforeLoad(e)]
        ELSE [state |-> "failed", loaded |-> FALSE, exc |-> r.exc,
              all |-> <<>>, attrs |-> <<>>]

(***************************************************************************)
(* dev_build.py.  A command line is the sequence of its words; a path is   *)
(* the sequence of its components, each the sequence of its characters;    *)
(* the script is the list of operations it still has to perform.           *)
(***************************************************************************)
\* The command lines dev_build.py runs.
Cmd ==
    [pipBuild |->
         <<"python", "-m", "pip", "install", "--no-build-isolation", "-e", ".">>,
     pipInstall |->
         <<"python", "-m", "pip", "install", ".">>,
     pipDevelop |->
         <<"python", "-m", "pip", "install", "-e", ".">>,
     pytest |->
         <<"python", "-m", "pytest", "tests/", "-v">>,
     buildSh |->
         <<"./build.sh", "build">>,
     cmakeConfigure |->
         <<"cmake", "-B", "build", "-DCMAKE_BUILD_TYPE=Release", "-DBUILD_SHARED_LIBS=OFF">>,
     cmakeBuild |->
         <<"cmake", "--build", "build", "--config", "Release">>,
     verifyCommand |->
         <<"python", "-c", "import cfd_python; print version and solvers">>]

\* The choices of the command argument.
Commands == {"build", "install", "develop", "test", "clean", "all", "verify", "cfd"}

\* Operations of the script: a function call, run(cmd, check=...), the
\* branch on verify()'s result, a print, sys.exit(code).
OpCall(name) == [op |-> "call", arg |-> <<name>>, check |-> FALSE, code |-> 0]

OpRun(cmd, check) == [op |-> "run", arg |-> cmd, check |-> check, code |-> 0]

OpIfVerified == [op |-> "if verified", arg |-> <<>>, check |-> FALSE, code |-> 0]

OpPrint(text) == [op |-> "print", arg |-> <<text>>, check |-> FALSE, code |-> 0]

OpExit(code) == [op |-> "exit", arg |-> <<>>, check |-> FALSE, code |-> code]

\* Mutant: 'all' tests before it verifies.
MainBodyTestFirst(command) ==
    CASE command = "build"   -> <<OpCall("build"), OpPrint("Done!")>>
      [] command = "install" -> <<OpCall("build_cfd_library"), OpCall("install"), OpPrint("Done!")>>
      [] command = "develop" -> <<OpCall("build_cfd_library"), OpCall("develop"), OpPrint("Done!")>>
      [] command = "test"    -> <<OpCall("test"), OpPrint("Done!")>>
      [] command = "clean"   -> <<OpCall("clean"), OpPrint("Done!")>>
      [] command = "verify"  -> <<OpCall("verify"), OpPrint("Done!")>>
      [] command = "cfd"     -> <<OpCall("build_cfd_library"), OpPrint("Done!")>>
      [] command = "all"     -> <<OpCall("clean"), OpCall("build_cfd_library"),
                                  OpCall("develop"), OpCall("test"), OpCall("verify"),
                                  OpPrint("Done!")>>

\* main(): the branch of the command, then print("\nDone!").
MainBody(command) ==
    CASE command = "build"   -> <<OpCall("build"), OpPrint("Done!")>>
      [] command = "install" -> <<OpCall("build_cfd_library"), OpCall("install"), OpPrint("Done!")>>
      [] command = "develop" -> <<OpCall("build_cfd_library"), OpCall("develop"), OpPrint("Done!")>>
      [] command = "test"    -> <<OpCall("test"), OpPrint("Done!")>>
      [] command = "clean"   -> <<OpCall("clean"), OpPrint("Done!")>>
      [] command = "verify"  -> <<OpCall("verify"), OpPrint("Done!")>>
      [] command = "cfd"     -> <<OpCall("build_cfd_library"), OpPrint("Done!")>>
      [] command = "all"     -> <<OpCall("clean"), OpCall("build_cfd_library"),
                                  OpCall("develop"), OpCall("verify"), OpIfVerified,
                                  OpPrint("Done!")>>

\* The body of a function of the script other than clean(), given which
\* of CFD_ROOT, CFD_ROOT/build.sh and CFD_ROOT/build/lib/Release exist.
FunctionBody(name, d) ==
    CASE name = "build_cfd_library" ->
             IF ~d.cfdRoot
             THEN <<OpPrint("ERROR: CFD library not found"), OpExit(1)>>
             ELSE IF d.buildScript
             THEN <<OpRun(Cmd.buildSh, TRUE)>>
             ELSE <<OpRun(Cmd.cmakeConfigure, TRUE), OpRun(Cmd.cmakeBuild, TRUE)>>
      [] name = "build" ->
             (IF ~d.cfdLibDir THEN <<OpCall("build_cfd_library")>> ELSE <<>>)
                 \o <<OpRun(Cmd.pipBuild, TRUE)>>
      [] name = "install" -> <<OpRun(Cmd.pipInstall, TRUE)>>
      [] name = "develop" -> <<OpRun(Cmd.pipDevelop, TRUE)>>
      [] name = "test"    -> <<OpRun(Cmd.pytest, TRUE)>>
      [] name = "verify"  -> <<OpRun(Cmd.verifyCommand, FALSE)>>

\* The names of directories and files, and the two suffixes.
Name ==
    [build |-> <<"b", "u", "i", "l", "d">>,
     dist |-> <<"d", "i", "s", "t">>,
     wheelhouse |-> <<"w", "h", "e", "e", "l", "h", "o", "u", "s", "e">>,
     eggInfo |-> <<"c", "f", "d", "_", "p", "y", "t", "h", "o", "n", ".", "e", "g", "g", "-", "i", "n", "f", "o">>,
     pytestCache |-> <<".", "p", "y", "t", "e", "s", "t", "_", "c", "a", "c", "h", "e">>,
     pycache |-> <<"_", "_", "p", "y", "c", "a", "c", "h", "e", "_", "_">>,
     dotVenv |-> <<".", "v", "e", "n", "v">>,
     venv |-> <<"v", "e", "n", "v">>,
     dotEnv |-> <<".", "e", "n", "v">>,
     env |-> <<"e", "n", "v">>,
     virtualenv |-> <<"v", "i", "r", "t", "u", "a", "l", "e", "n", "v">>,
     dotVirtualenv |-> <<".", "v", "i", "r", "t", "u", "a", "l", "e", "n", "v">>,
     package |-> <<"c", "f", "d", "_", "p", "y", "t", "h", "o", "n">>,
     lib |-> <<"l", "i", "b">>,
     tools |-> <<"v", "e", "n", "v", "_", "t", "o", "o", "l", "s">>,
     home |-> <<"h", "o", "m", "e">>,
     project |-> <<"c", "f", "d", "-", "p", "y", "t", "h", "o", "n">>,
     coreSo |-> <<"c", "o", "r", "e", ".", "s", "o">>,
     pythonPyd |-> <<"p", "y", "t", "h", "o", "n", ".", "p", "y", "d">>,
     modPyc |-> <<"m", "o", "d", ".", "p", "y", "c">>,
     helperSo |-> <<"h", "e", "l", "p", "e", "r", ".", "s", "o">>,
     cfdPyd |-> <<"c", "f", "d", ".", "p", "y", "d">>,
     cachedSo |-> <<"c", "a", "c", "h", "e", "d", ".", "s", "o">>,
     suffixPyd |-> <<".", "p", "y", "d">>,
     suffixSo |-> <<".", "s", "o">>]

\* venv_patterns
VenvPatterns ==
    {Name.dotVenv, Name.venv, Name.dotEnv, Name.env, Name.virtualenv, Name.dotVirtualenv}

\* dirs_to_clean, relative to PROJECT_ROOT.
DirsToClean ==
    {<<Name.build>>, <<Name.dist>>, <<Name.wheelhouse>>, <<Name.eggInfo>>, <<Name.pytestCache>>}

\* The file lies inside the directory.
Under(path, dir) == Len(path) > Len(dir) /\ SubSeq(path, 1, Len(dir)) = dir

\* The file lies inside a directory PROJECT_ROOT.rglob("__pycache__") yields.
InPycache(path) == \E i \in 1 .. (Len(path) - 1) : path[i] = Name.pycache

\* The file is yielded by PROJECT_ROOT.rglob("*.pyd") or rglob("*.so").
IsLibrary(path) ==
    \/ EndsWith(path[Len(path)], Name.suffixPyd)
    \/ EndsWith(path[Len(path)], Name.suffixSo)

\* any(part in venv_patterns for part in f.parts): f is the absolute path.
HasVenvPart(root, path) ==
    \E i \in DOMAIN (root \o path) : (root \o path)[i] \in VenvPatterns

\* Mutant: the virtual-environment test is left out.
CleanNoVenvCheck(root, fs) ==
    {p \in fs :
        /\ \A d \in DirsToClean : ~Under(p, d)
        /\ ~InPycache(p)
        /\ ~IsLibrary(p)}

\* clean(): the files of the project that remain.
Clean(root, fs) ==
    LET afterDirs == {p \in fs : \A d \in DirsToClean : ~Under(p, d)}
        afterPycache == {p \in afterDirs : ~InPycache(p)}
    IN  {p \in afterPycache : ~(IsLibrary(p) /\ ~HasVenvPart(root, p))}

(***************************************************************************)
(* scripts/setup_distribution.py: main() and its five steps.  A step is    *)
(* given what it finds (flag: the C library directory, the cibuildwheel    *)
(* module, a built wheel), whether a file operation fails, whether the     *)
(* user interrupts it, and the exit codes of the commands it runs.         *)
(***************************************************************************)
\* steps
StepNames ==
    <<"Embedding C library", "Updating CMake configuration", "Building wheels locally",
      "Testing wheel installation", "Setting up PyPI configuration">>

StepReturned(value) == [kind |-> IF value THEN "true" ELSE "false", cls |-> "none"]

StepRaised(cls) == [kind |-> "raised", cls |-> cls]

\* run_command(cmd) with check=True: <<>> or the CalledProcessError re-raised.
RunCommandFailure(rc) == IF rc # 0 THEN <<StepRaised("CalledProcessError")>> ELSE <<>>

\* embed_c_library()
EmbedCLibrary(in) ==
    IF ~in.flag THEN StepReturned(FALSE)
    ELSE IF in.ioError THEN StepRaised("OSError")
    ELSE StepReturned(TRUE)

\* update_main_cmake()
UpdateMainCmake(in) ==
    IF in.ioError THEN StepRaised("OSError") ELSE StepReturned(TRUE)

\* build_wheels_locally(): pip install cibuildwheel when it cannot be
\* imported, then cibuildwheel with check=False.
BuildWheelsLocally(in) ==
    IF ~in.flag /\ RunCommandFailure(in.rcs[1]) # <<>>
    THEN RunCommandFailure(in.rcs[1])[1]
    ELSE StepReturned(in.rcs[2] = 0)

\* test_wheel_installation(): venv, pip install of the wheel, test script.
TestWheelInstallation(in) ==
    IF ~in.flag THEN StepReturned(FALSE)
    ELSE IF in.ioError THEN StepRaised("OSError")
    ELSE IF RunCommandFailure(in.rcs[1]) # <<>> THEN RunCommandFailure(in.rcs[1])[1]
    ELSE IF RunCommandFailure(in.rcs[2]) # <<>> THEN RunCommandFailure(in.rcs[2])[1]
    ELSE StepReturned(in.rcs[3] = 0)

\* setup_pypi_config()
SetupPypiConfig(in) ==
    IF in.ioError THEN StepRaised("OSError") ELSE StepReturned(TRUE)

\* step_func(): the outcome of the i-th step.
StepOutcome(i, in) ==
    IF in.interrupted THEN StepRaised("KeyboardInterrupt")
    ELSE CASE i = 1 -> EmbedCLibrary(in)
           [] i = 2 -> UpdateMainCmake(in)
           [] i = 3 -> BuildWheelsLocally(in)
           [] i = 4 -> TestWheelInstallation(in)
           [] i = 5 -> SetupPypiConfig(in)

\* Mutant: only the failure of a command is caught.
AfterStepCommandErrorsOnly(res) ==
    CASE res.kind = "true"  -> "continue"
      [] res.kind = "false" -> "break"
      [] OTHER -> IF Catchable(res.cls, "CalledProcessError")
                  THEN "break" ELSE "propagate"

\* The body of main()'s loop after step_func(): go on, break, or let the
\* exception leave main.
AfterStep(res) ==
    CASE res.kind = "true"  -> "continue"
      [] res.kind = "false" -> "break"
      [] OTHER -> IF Catchable(res.cls, "Exception") THEN "break" ELSE "propagate"

(***************************************************************************)
(* The example callers: safe_simulation (examples/error_handling.py) and   *)
(* run_cavity_simulation (examples/lid_driven_cavity_advanced.py).         *)
(***************************************************************************)
CFD_SUCCESS == 0

\* sample_steps before it is cut to the requested number of steps
SampleStepsAll == <<1, 5, 10, 25, 50, 100, 150, 200>>

\* sample_steps of run_cavity_simulation(steps=steps)
SampleSteps(steps) ==
    LET kept == SelectSeq(SampleStepsAll, LAMBDA s : s <= steps)
    IN  IF steps \in Range(kept) THEN kept ELSE Append(kept, steps)

TxtSimulation == <<"s", "i", "m", "u", "l", "a", "t", "i", "o", "n">>

\* The context a caller passes to raise_for_status.
CallerContext(caller, sim_steps) ==
    IF caller = "safe_simulation" THEN TxtSimulation
    ELSE <<"s", "t", "e", "p", "s", "=">> \o IntToStr(sim_steps)

\* The except clauses of a caller, in order.
Handlers(caller) ==
    IF caller = "safe_simulation"
    THEN <<"CFDDivergedError", "CFDMaxIterError", "CFDInvalidError", "CFDError">>
    ELSE <<"CFDError">>

\* Mutant: the callers have no clause for the base class.
HandlerForSpecificOnly(caller, cls) ==
    LET hs == SelectSeq(Handlers(caller), LAMBDA h : h # "CFDError" /\ Catchable(cls, h))
    IN  IF hs = <<>> THEN <<>> ELSE <<hs[1]>>

\* The first except clause of the caller that matches an exception of
\* class cls: <<>> when none does.
HandlerFor(caller, cls) ==
    LET hs == SelectSeq(Handlers(caller), LAMBDA h : Catchable(cls, h))
    IN  IF hs = <<>> THEN <<>> ELSE <<hs[1]>>

\* A call the caller makes into cfd_python, with the value passed or read.
NativeCall(fn, value) == [fn |-> fn, value |-> value]

(***************************************************************************)
(* State machine.                                                          *)
(***************************************************************************)
\* No error instance constructed yet.
NoMade == [cls |-> "none", args |-> <<>>, error |-> NoError]

\* The package's import machinery is not part of this specification.
LoaderIdle ==
    /\ env = NoEnv
    /\ loadResult = NoLoad
    /\ pkg = NoPackage

\* No helper was called directly.
RestIdle ==
    /\ versionResult = NoVersionCall
    /\ existsResult = <<>>

\* dev_build.py is not running.
NoDev ==
    [status |-> "idle", command |-> "none", cfdRoot |-> FALSE, buildScript |-> FALSE,
     cfdLibDir |-> FALSE, root |-> <<>>, fs |-> {}, fsBefore |-> {}, todo |-> <<>>,
     trace |-> <<>>, lastRc |-> 0, exitCode |-> 0]

\* setup_distribution.main() is not running.
NoDist == [status |-> "idle", log |-> <<>>, result |-> <<>>, exc |-> <<>>]

\* No example caller is running.
NoStudy ==
    [status |-> "idle", caller |-> "none", steps |-> 0, pc |-> "none", k |-> 0,
     read |-> <<>>, trace |-> <<>>, ran |-> <<>>, failed |-> <<>>, vel_mag |-> <<>>,
     vtk |-> <<>>, result |-> "none", exc |-> "none", handler |-> "none"]

\* No script or example is running.
ScriptsIdle ==
    /\ dev = NoDev
    /\ dist = NoDist
    /\ study = NoStudy

Init ==
    /\ extLoaded \in BOOLEAN
    /\ lastStatus = 0
    /\ lastError = <<>>
    /\ history = <<>>
    /\ outcome = NoOutcome
    /\ repeat = FALSE
    /\ made = NoMade
    /\ LoaderIdle
    /\ RestIdle
    /\ ScriptsIdle

\* The caller runs a native operation: the history restarts when the
\* caller has consumed a translator outcome.
Record(op) ==
    /\ extLoaded
    /\ IF outcome.kind # "none"
       THEN history' = <<op>>
       ELSE Len(history) < MaxOps /\ history' = Append(history, op)
    /\ outcome' = NoOutcome
    /\ repeat' = FALSE
    /\ UNCHANGED <<made, loaderVars, restVars>>

\* A native operation fails: it stores its status and message in the one slot.
NativeFailure(code, msg) ==
    /\ Record([op |-> "fail", code |-> code, msg |-> msg])
    /\ lastStatus' = code
    /\ lastError' = msg
    /\ UNCHANGED extLoaded

\* clear_error(): resets the slot.
ClearError ==
    /\ Record([op |-> "clear", code |-> 0, msg |-> <<>>])
    /\ lastStatus' = 0
    /\ lastError' = <<>>
    /\ UNCHANGED extLoaded

\* The call about to be made repeats the latest one.
IsRepeat(code, context) ==
    outcome.kind # "none" /\ outcome.code = code /\ outcome.context = context

\* Mutant: the translator clears the native slot once it has read it.
RaiseForStatusClearing(code, context, fault) ==
    /\ outcome' = LET o == Translate(code, context, extLoaded, lastError, fault)
                  IN  [o EXCEPT !.calls = Append(o.calls, Call("clear_error", "none"))]
    /\ lastStatus' = 0
    /\ lastError' = <<>>
    /\ repeat' = IsRepeat(code, context)
    /\ UNCHANGED <<extLoaded, history, made, loaderVars, restVars>>

\* raise_for_status(code, context), with the native queries behaving as fault says.
RaiseForStatus(code, context, fault) ==
    /\ outcome' = Translate(code, context, extLoaded, lastError, fault)
    /\ repeat' = IsRepeat(code, context)
    /\ UNCHANGED <<extLoaded, lastStatus, lastError, history, made, loaderVars, restVars>>

\* A caller constructs an error instance itself: cls(message) or
\* cls(message, status_code).
Construct(cls, args) ==
    /\ made' = [cls |-> cls, args |-> args, error |-> ConstructError(cls, args)]
    /\ UNCHANGED <<translatorVars, loaderVars, restVars>>

Next ==
    \/ \E code \in NativeFailCodes, msg \in NativeMessages : NativeFailure(code, msg)
    \/ ClearError
    \/ \E code \in Codes, context \in Contexts : RaiseForStatus(code, context, NoFault)

Spec == Init /\ [][Next]_vars

\* The same program with native queries that may raise.
NextFault ==
    \/ \E code \in NativeFailCodes, msg \in NativeMessages : NativeFailure(code, msg)
    \/ ClearError
    \/ \E code \in Codes, context \in Contexts, fault \in Faults :
           RaiseForStatus(code, context, fault)

SpecFault == Init /\ [][NextFault]_vars

\* The messages callers construct errors with.
Messages == Contexts \cup NativeMessages

\* The error classes used on their own.
NextErrors ==
    \E cls \in ErrorClasses, message \in Messages :
        \/ Construct(cls, <<message>>)
        \/ \E code \in Codes : Construct(cls, <<message, code>>)

SpecErrors == Init /\ [][NextErrors]_vars

\* load_extension() is called in the environment.
CallLoadExtension ==
    /\ env.observed
    /\ loadResult' = LoadExtension(env)
    /\ UNCHANGED <<translatorVars, made, env, pkg, restVars>>

\* The package is imported in the environment.
ImportPackage ==
    /\ env.observed
    /\ pkg' = PackageImport(env)
    /\ UNCHANGED <<translatorVars, made, env, loadResult, restVars>>

\* The loader and the package import, in any environment.
InitLoader ==
    /\ env \in Envs
    /\ extLoaded = (ModuleImportFailure(env) = <<>>)
    /\ lastStatus = 0
    /\ lastError = <<>>
    /\ history = <<>>
    /\ outcome = NoOutcome
    /\ repeat = FALSE
    /\ made = NoMade
    /\ loadResult = NoLoad
    /\ pkg = NoPackage
    /\ RestIdle
    /\ ScriptsIdle

NextLoader == CallLoadExtension \/ ImportPackage

SpecLoader == InitLoader /\ [][NextLoader]_vars

\* get_version() is called in the environment.
CallGetVersion ==
    /\ env.observed
    /\ versionResult' = GetVersionCall(env)
    /\ UNCHANGED <<translatorVars, made, loaderVars, existsResult, scriptVars>>

\* _check_extension_exists() is called in the environment.
CallCheckExtensionExists ==
    /\ env.observed
    /\ existsResult' = <<CheckExtensionExists(env.files)>>
    /\ UNCHANGED <<translatorVars, made, loaderVars, versionResult, scriptVars>>

\* The helpers of _version.py and _loader.py called directly.
InitQueries ==
    /\ env \in QueryEnvs
    /\ extLoaded = (ModuleImportFailure(env) = <<>>)
    /\ lastStatus = 0
    /\ lastError = <<>>
    /\ history = <<>>
    /\ outcome = NoOutcome
    /\ repeat = FALSE
    /\ made = NoMade
    /\ loadResult = NoLoad
    /\ pkg = NoPackage
    /\ RestIdle
    /\ ScriptsIdle

NextQueries == CallGetVersion \/ CallCheckExtensionExists

SpecQueries == InitQueries /\ [][NextQueries]_vars

\* The translator, the loader and the helpers are not part of a script run.
PackageIdle ==
    /\ extLoaded = FALSE
    /\ lastStatus = 0
    /\ lastError = <<>>
    /\ history = <<>>
    /\ outcome = NoOutcome
    /\ repeat = FALSE
    /\ made = NoMade
    /\ LoaderIdle
    /\ RestIdle

\* Exit codes of the commands the script starts.
MaxRc == 2

ReturnCodes == 0 .. MaxRc

\* Files of a project tree, relative to PROJECT_ROOT.
ProjectFiles ==
    {<<Name.package, Name.coreSo>>,
     <<Name.package, File.init>>,
     <<Name.package, Name.pycache, Name.modPyc>>,
     <<Name.build, Name.lib, Name.cfdPyd>>,
     <<Name.build, Name.venv, Name.lib, Name.coreSo>>,
     <<Name.dotVenv, Name.lib, Name.coreSo>>,
     <<Name.dotVenv, Name.lib, Name.pycache, Name.cachedSo>>,
     <<Name.env, Name.pythonPyd>>,
     <<Name.tools, Name.helperSo>>}

\* PROJECT_ROOT: the directory of the script, resolved.
ProjectRoots == {<<Name.home, Name.project>>, <<Name.home, Name.env, Name.project>>}

Event(ev, what, rc) == [ev |-> ev, what |-> what, rc |-> rc]

DevRunning == dev.status = "running" /\ dev.todo # <<>>

\* A function of the script other than clean() is entered.
DevCall ==
    /\ DevRunning
    /\ Head(dev.todo).op = "call"
    /\ Head(dev.todo).arg[1] # "clean"
    /\ dev' = [dev EXCEPT
                   !.todo = FunctionBody(Head(dev.todo).arg[1], dev) \o Tail(dev.todo),
                   !.trace = Append(dev.trace, Event("call", Head(dev.todo).arg, 0))]
    /\ UNCHANGED <<packageVars, dist, study>>

\* clean()
DevClean ==
    /\ DevRunning
    /\ Head(dev.todo) = OpCall("clean")
    /\ dev' = [dev EXCEPT
                   !.fsBefore = dev.fs,
                   !.fs = Clean(dev.root, dev.fs),
                   !.todo = Tail(dev.todo),
                   !.trace = Append(dev.trace, Event("call", <<"clean">>, 0))]
    /\ UNCHANGED <<packageVars, dist, study>>

\* Mutant: run() returns the result whatever the exit code.
DevRunUnchecked(rc) ==
    /\ DevRunning
    /\ Head(dev.todo).op = "run"
    /\ dev' = [dev EXCEPT
                   !.trace = Append(dev.trace, Event("run", Head(dev.todo).arg, rc)),
                   !.lastRc = rc,
                   !.todo = Tail(dev.todo)]
    /\ UNCHANGED <<packageVars, dist, study>>

\* run(cmd, check): the command exits with rc.
DevRun(rc) ==
    /\ DevRunning
    /\ Head(dev.todo).op = "run"
    /\ dev' = IF Head(dev.todo).check /\ rc # 0
              THEN [dev EXCEPT
                        !.trace = Append(dev.trace, Event("run", Head(dev.todo).arg, rc)),
                        !.lastRc = rc,
                        !.status = "exited",
                        !.exitCode = rc]
              ELSE [dev EXCEPT
                        !.trace = Append(dev.trace, Event("run", Head(dev.todo).arg, rc)),
                        !.lastRc = rc,
                        !.todo = Tail(dev.todo)]
    /\ UNCHANGED <<packageVars, dist, study>>

\* "if verify(): test() else: print(...); sys.exit(1)" of the 'all' branch.
DevIfVerified ==
    /\ DevRunning
    /\ Head(dev.todo).op = "if verified"
    /\ dev' = [dev EXCEPT
                   !.todo = (IF dev.lastRc = 0
                             THEN <<OpCall("test")>>
                             ELSE <<OpPrint("ERROR: Verification failed"), OpExit(1)>>)
                            \o Tail(dev.todo)]
    /\ UNCHANGED <<packageVars, dist, study>>

\* print(...)
DevPrint ==
    /\ DevRunning
    /\ Head(dev.todo).op = "print"
    /\ dev' = [dev EXCEPT
                   !.todo = Tail(dev.todo),
                   !.trace = Append(dev.trace, Event("print", Head(dev.todo).arg, 0))]
    /\ UNCHANGED <<packageVars, dist, study>>

\* sys.exit(code)
DevExit ==
    /\ DevRunning
    /\ Head(dev.todo).op = "exit"
    /\ dev' = [dev EXCEPT !.status = "exited", !.exitCode = Head(dev.todo).code]
    /\ UNCHANGED <<packageVars, dist, study>>

\* main() returns.
DevReturn ==
    /\ dev.status = "running"
    /\ dev.todo = <<>>
    /\ dev' = [dev EXCEPT !.status = "exited", !.exitCode = 0]
    /\ UNCHANGED <<packageVars, dist, study>>

\* python dev_build.py <command>: every project tree for clean, two trees
\* for the commands that start other programs.
InitDev ==
    /\ PackageIdle
    /\ \E command \in Commands, cfdRoot \in BOOLEAN, buildScript \in BOOLEAN,
          cfdLibDir \in BOOLEAN, root \in ProjectRoots, fs \in SUBSET ProjectFiles :
           /\ buildScript => cfdRoot
           /\ cfdLibDir => cfdRoot
           /\ command = "clean" => cfdRoot /\ buildScript /\ cfdLibDir
           /\ command # "clean" => fs \in {{}, ProjectFiles} /\ root = <<Name.home, Name.project>>
           /\ dist = NoDist
           /\ study = NoStudy
           /\ dev = [status |-> "running", command |-> command, cfdRoot |-> cfdRoot,
                     buildScript |-> buildScript, cfdLibDir |-> cfdLibDir, root |-> root,
                     fs |-> fs, fsBefore |-> {}, todo |-> MainBody(command), trace |-> <<>>,
                     lastRc |-> 0, exitCode |-> 0]

NextDev ==
    \/ DevCall
    \/ DevClean
    \/ \E rc \in ReturnCodes : DevRun(rc)
    \/ DevIfVerified
    \/ DevPrint
    \/ DevExit
    \/ DevReturn

SpecDev == InitDev /\ [][NextDev]_vars

\* What the i-th step can meet: the fields a step does not read are fixed.
StepInputs(i) ==
    {[flag |-> f, ioError |-> io, interrupted |-> int, rcs |-> <<r1, r2, r3>>] :
        f \in (IF i \in {1, 3, 4} THEN BOOLEAN ELSE {TRUE}),
        io \in (IF i \in {1, 2, 4, 5} THEN BOOLEAN ELSE {FALSE}),
        int \in BOOLEAN,
        r1 \in (IF i \in {3, 4} THEN ReturnCodes ELSE {0}),
        r2 \in (IF i \in {3, 4} THEN ReturnCodes ELSE {0}),
        r3 \in (IF i = 4 THEN ReturnCodes ELSE {0})}

\* One iteration of main()'s loop: the next step runs and main goes on,
\* breaks and returns False, or is left by the exception.
DistStep(in) ==
    /\ dist.status = "running"
    /\ Len(dist.log) < Len(StepNames)
    /\ LET i == Len(dist.log) + 1
           res == StepOutcome(i, in)
           log == Append(dist.log, [step |-> StepNames[i], input |-> in, outcome |-> res])
       IN  dist' = CASE AfterStep(res) = "continue" -> [dist EXCEPT !.log = log]
                     [] AfterStep(res) = "break" ->
                            [dist EXCEPT !.log = log, !.status = "returned",
                                         !.result = <<FALSE>>]
                     [] OTHER ->
                            [dist EXCEPT !.log = log, !.status = "raised",
                                         !.exc = <<res.cls>>]
    /\ UNCHANGED <<packageVars, dev, study>>

\* The loop ends without a break: the else branch returns True.
DistComplete ==
    /\ dist.status = "running"
    /\ Len(dist.log) = Len(StepNames)
    /\ dist' = [dist EXCEPT !.status = "returned", !.result = <<TRUE>>]
    /\ UNCHANGED <<packageVars, dev, study>>

InitDist ==
    /\ PackageIdle
    /\ dev = NoDev
    /\ study = NoStudy
    /\ dist = [status |-> "running", log |-> <<>>, result |-> <<>>, exc |-> <<>>]

NextDist ==
    \/ \E i \in DOMAIN StepNames : \E in \in StepInputs(i) :
           i = Len(dist.log) + 1 /\ DistStep(in)
    \/ DistComplete

SpecDist == InitDist /\ [][NextDist]_vars

CallerIdleVars == <<extLoaded, history, repeat, made, loaderVars, versionResult, existsResult,
                    dev, dist>>

\* Requested numbers of steps of run_cavity_simulation.
StepChoices == {0, 1, 3, 10, 30, 200, 500}

Callers == {"safe_simulation", "run_cavity_simulation"}

\* What one run_simulation_with_params call can do: succeed, or fail with a
\* status and message left in the slot, the failure either only recorded
\* (the call returns) or also raised as the status's exception.
SimulationResults ==
    {[ok |-> TRUE, code |-> 0, msg |-> <<>>, raises |-> FALSE]} \cup
    {[ok |-> FALSE, code |-> c, msg |-> m, raises |-> r] :
        c \in NativeFailCodes \cup {-3, -7}, m \in NativeMessages, r \in BOOLEAN}

At(pc) == study.status = "running" /\ study.pc = pc

\* An exception of class cls is raised inside the caller's try block at the
\* sample in progress: the matching clause runs, or the exception leaves.
Handle(s, cls) ==
    LET h == HandlerFor(s.caller, cls)
    IN  IF h = <<>>
        THEN [s EXCEPT !.status = "raised", !.exc = cls, !.pc = "done"]
        ELSE IF s.caller = "safe_simulation"
             THEN [s EXCEPT !.status = "returned", !.result = "None", !.handler = h[1],
                            !.pc = "done"]
             ELSE [s EXCEPT !.failed = <<s.k>>, !.handler = h[1], !.pc = "final"]

\* safe_simulation: cfd_python.clear_error()
CallerClearError ==
    /\ At("clear")
    /\ lastStatus' = 0
    /\ lastError' = <<>>
    /\ study' = [study EXCEPT !.trace = Append(@, NativeCall("clear_error", <<>>)),
                              !.pc = "simulate"]
    /\ UNCHANGED <<outcome, CallerIdleVars>>

\* result = cfd_python.run_simulation_with_params(..., steps=sim_steps, ...)
CallerSimulate(res) ==
    /\ At("simulate")
    /\ LET sim_steps == IF study.caller = "safe_simulation" THEN study.steps
                        ELSE SampleSteps(study.steps)[study.k]
           s == [study EXCEPT
                     !.trace = Append(@, NativeCall("run_simulation_with_params", <<sim_steps>>)),
                     !.ran = Append(@, sim_steps)]
       IN  /\ lastStatus' = IF res.ok THEN lastStatus ELSE res.code
           /\ lastError' = IF res.ok THEN lastError ELSE res.msg
           /\ study' = IF res.raises THEN Handle(s, ExceptionClassFor(res.code))
                       ELSE [s EXCEPT !.pc = "status"]
    /\ UNCHANGED <<outcome, CallerIdleVars>>

\* status = cfd_python.get_last_status()
CallerGetLastStatus ==
    /\ At("status")
    /\ study' = [study EXCEPT !.read = <<lastStatus>>,
                              !.trace = Append(@, NativeCall("get_last_status", <<lastStatus>>)),
                              !.pc = "check"]
    /\ UNCHANGED <<lastStatus, lastError, outcome, CallerIdleVars>>

\* if status != cfd_python.CFD_SUCCESS: cfd_python.raise_for_status(status, context=...)
CallerCheck ==
    /\ At("check")
    /\ LET status == study.read[1]
           sim_steps == study.ran[Len(study.ran)]
           o == Translate(status, CallerContext(study.caller, sim_steps), extLoaded,
                          lastError, NoFault)
           s == [study EXCEPT !.trace = Append(@, NativeCall("raise_for_status", <<status>>))]
           next == IF study.caller = "safe_simulation" THEN "return" ELSE "sample"
       IN  IF status # CFD_SUCCESS
           THEN /\ outcome' = o
                /\ study' = CASE o.kind = "raised" -> Handle(s, o.error.cls)
                              [] o.kind = "escaped" ->
                                     [s EXCEPT !.status = "raised", !.exc = o.exc, !.pc = "done"]
                              [] OTHER -> [s EXCEPT !.pc = next]
           ELSE /\ outcome' = outcome
                /\ study' = [study EXCEPT !.pc = next]
    /\ UNCHANGED <<lastStatus, lastError, CallerIdleVars>>

\* safe_simulation: return result
CallerReturnResult ==
    /\ At("return")
    /\ study' = [study EXCEPT !.status = "returned", !.result = "result", !.pc = "done"]
    /\ UNCHANGED <<lastStatus, lastError, outcome, CallerIdleVars>>

\* run_cavity_simulation: the rest of the loop body after the try statement.
CallerSample ==
    /\ At("sample")
    /\ LET sim_steps == SampleSteps(study.steps)[study.k]
           stats == Append(study.trace, NativeCall("calculate_field_stats", <<sim_steps>>))
           last == study.k = Len(SampleSteps(study.steps))
       IN  study' = [study EXCEPT
                         !.vel_mag = <<sim_steps>>,
                         !.trace = IF sim_steps = study.steps
                                   THEN Append(stats, NativeCall("write_vtk_scalar", <<sim_steps>>))
                                   ELSE stats,
                         !.vtk = IF sim_steps = study.steps THEN Append(@, sim_steps) ELSE @,
                         !.k = IF last THEN @ ELSE @ + 1,
                         !.pc = IF last THEN "final" ELSE "simulate"]
    /\ UNCHANGED <<lastStatus, lastError, outcome, CallerIdleVars>>

\* run_cavity_simulation after the loop:
\* final_stats = cfd_python.calculate_field_stats(vel_mag); return {...}
CallerFinal ==
    /\ At("final")
    /\ study' = IF study.vel_mag = <<>>
                THEN [study EXCEPT !.status = "raised", !.exc = "UnboundLocalError",
                                   !.pc = "done"]
                ELSE [study EXCEPT
                          !.trace = Append(@, NativeCall("calculate_field_stats", study.vel_mag)),
                          !.status = "returned", !.result = "dict", !.pc = "done"]
    /\ UNCHANGED <<lastStatus, lastError, outcome, CallerIdleVars>>

\* A caller starts with the extension loaded; the slot is clean or holds an
\* earlier failure.
InitCallers ==
    /\ extLoaded = TRUE
    /\ \E stale \in {[code |-> 0, msg |-> <<>>]} \cup
                    {[code |-> c, msg |-> m] : c \in {-2}, m \in NativeMessages} :
           lastStatus = stale.code /\ lastError = stale.msg
    /\ history = <<>>
    /\ outcome = NoOutcome
    /\ repeat = FALSE
    /\ made = NoMade
    /\ LoaderIdle
    /\ RestIdle
    /\ dev = NoDev
    /\ dist = NoDist
    /\ \E caller \in Callers, steps \in StepChoices :
           /\ caller = "safe_simulation" => steps = 10
           /\ study = [NoStudy EXCEPT
                           !.status = "running", !.caller = caller, !.steps = steps,
                           !.pc = IF caller = "safe_simulation" THEN "clear" ELSE "simulate",
                           !.k = 1]

NextCallers ==
    \/ CallerClearError
    \/ \E res \in SimulationResults : CallerSimulate(res)
    \/ CallerGetLastStatus
    \/ CallerCheck
    \/ CallerReturnResult
    \/ CallerSample
    \/ CallerFinal

SpecCallers == InitCallers /\ [][NextCallers]_vars

(***************************************************************************)
(* Properties.                                                             *)
(***************************************************************************)
Contains(s, t) == \E i \in 0 .. (Len(s) - Len(t)) : SubSeq(s, i + 1, i + Len(t)) = t

\* The table of section 3 of the specification, written out.
KindTable(code) ==
    CASE code = -1 -> "CFDError"
      [] code = -2 -> "CFDMemoryError"
      [] code = -3 -> "CFDInvalidError"
      [] code = -4 -> "CFDIOError"
      [] code = -5 -> "CFDUnsupportedError"
      [] code = -6 -> "CFDDivergedError"
      [] code = -7 -> "CFDMaxIterError"
      [] OTHER     -> "CFDError"

Called == outcome.kind # "none"

Raised == outcome.kind = "raised"

TxtDuringAllocation ==
    <<"d", "u", "r", "i", "n", "g", " ", "a", "l", "l", "o", "c", "a", "t", "i", "o", "n">>

TxtCFLViolated == <<"C", "F", "L", " ", "v", "i", "o", "l", "a", "t", "e", "d">>

\* C1: for every status code >= 0 and every context, raise_for_status
\* returns normally: nothing is raised and no error object is built.
C1_SuccessNeverRaises ==
    (Called /\ outcome.code >= 0) =>
        (outcome.kind = "returned" /\ outcome.error = NoError)

C1_Witness ==
    /\ outcome.kind = "returned"
    /\ outcome.code = 0
    /\ outcome.context # <<>>

\* C2: for every code in -7..-1 the raised error's class is the one the
\* table assigns to the code and its status_code is the code; no two of the
\* seven codes share a class.
C2_TableExactAndInjective ==
    /\ (Called /\ outcome.code \in -7 .. -1) =>
           /\ Raised
           /\ outcome.error.cls = KindTable(outcome.code)
           /\ outcome.error.status_code = outcome.code
    /\ \A c1, c2 \in -7 .. -1 :
           ExceptionClassFor(c1) = ExceptionClassFor(c2) => c1 = c2

C2_Witness ==
    /\ Raised
    /\ outcome.code = -7
    /\ outcome.error.cls = "CFDMaxIterError"
    /\ outcome.error.status_code = -7

\* C3: a negative code outside the table raises exactly the generic
\* CFDError and status_code stays the original code (never -1).
C3_UnmappedIsGenericWithOriginalCode ==
    (Called /\ outcome.code < -7) =>
        /\ Raised
        /\ outcome.error.cls = "CFDError"
        /\ outcome.error.status_code = outcome.code
        /\ outcome.error.status_code # -1

C3_Witness ==
    /\ Raised
    /\ outcome.code = -42
    /\ outcome.error.cls = "CFDError"
    /\ outcome.error.status_code = -42

\* C4: the message of a raised error is resolved by precedence: the
\* non-empty get_last_error() text, else get_error_string(code), else (the
\* native names are not available) a synthesized text holding the decimal
\* code; get_error_string is not called when get_last_error() was non-empty.
C4_MessagePrecedence ==
    Raised =>
        /\ EndsWith(outcome.error.message, outcome.resolved)
        /\ (extLoaded /\ lastError # <<>>) =>
               /\ outcome.resolved = lastError
               /\ \A i \in 1 .. Len(outcome.calls) :
                      outcome.calls[i].fn # "get_error_string"
        /\ (extLoaded /\ lastError = <<>>) =>
               outcome.resolved = GetErrorString(outcome.code)
        /\ ~extLoaded =>
               /\ outcome.calls = <<>>
               /\ Contains(outcome.resolved, IntToStr(outcome.code))
               /\ (outcome.code = -99 =>
                      EndsWith(outcome.resolved, <<"-", "9", "9">>))

C4_Witness ==
    /\ Raised
    /\ extLoaded
    /\ lastError = <<>>
    /\ history # <<>>
    /\ outcome.code = -6
    /\ outcome.resolved = <<"D", "i", "v", "e", "r", "g", "e", "d">>

\* C5: with a non-empty context the message is context, ": ", resolved
\* message, in that order; with an empty context it is the resolved message
\* alone.
C5_ContextPrefix ==
    Raised =>
        /\ outcome.context # <<>> =>
               outcome.error.message =
                   outcome.context \o <<":", " ">> \o outcome.resolved
        /\ outcome.context = <<>> =>
               outcome.error.message = outcome.resolved
        /\ (outcome.code = -2 /\ outcome.context = TxtDuringAllocation) =>
               StartsWith(outcome.error.message, TxtDuringAllocation \o <<":", " ">>)
        /\ (outcome.code = -6 /\ outcome.context = <<>> /\ extLoaded
              /\ lastError = TxtCFLViolated) =>
               outcome.error.message = TxtCFLViolated

C5_Witness ==
    /\ Raised
    /\ outcome.code = -2
    /\ outcome.context = TxtDuringAllocation
    /\ outcome.resolved # <<>>
    /\ Len(outcome.error.message) = Len(TxtDuringAllocation) + 2 + Len(outcome.resolved)

\* C6: for every code < 0 and however the native queries fail, the call
\* ends by raising the CFDError class selected by the code; no other
\* exception leaves raise_for_status.
C6_NoSecondaryException ==
    (Called /\ outcome.code < 0) =>
        /\ Raised
        /\ outcome.error.cls = KindTable(outcome.code)

\* C7: when get_last_error() itself raises, the failure is caught, the
\* message falls through to get_error_string(code) or to the code-only
\* text, and the error of the kind selected by the code is still raised.
C7_LastErrorFailureIsCaught ==
    (/\ Called
     /\ outcome.code < 0
     /\ outcome.calls # <<>>
     /\ outcome.calls[1].fn = "get_last_error"
     /\ outcome.calls[1].exc # "none") =>
        /\ Raised
        /\ outcome.error.cls = KindTable(outcome.code)
        /\ outcome.resolved \in
               {GetErrorString(outcome.code), CodeOnlyMessage(outcome.code)}

\* C8: with the extension not loaded, every code < 0 still raises the
\* class selected by the code with status_code = code, and the message is
\* "CFD error code <code>", behind "<context>: " when a context is given.
C8_UnreachableNativeLayer ==
    (~extLoaded /\ Called /\ outcome.code < 0) =>
        /\ Raised
        /\ outcome.error.cls = KindTable(outcome.code)
        /\ outcome.error.status_code = outcome.code
        /\ outcome.error.message =
               (IF outcome.context # <<>> THEN outcome.context \o <<":", " ">> ELSE <<>>)
               \o <<"C", "F", "D", " ", "e", "r", "r", "o", "r", " ", "c", "o", "d", "e", " ">>
               \o IntToStr(outcome.code)
        /\ (outcome.code = -42 /\ outcome.context = <<>>) =>
               outcome.error.message =
                   <<"C", "F", "D", " ", "e", "r", "r", "o", "r", " ", "c", "o", "d", "e", " ",
                     "-", "4", "2">>

C8_Witness ==
    /\ ~extLoaded
    /\ Raised
    /\ outcome.code = -3
    /\ outcome.error.cls = "CFDInvalidError"
    /\ outcome.context = TxtDuringAllocation
    /\ EndsWith(outcome.error.message, <<"c", "o", "d", "e", " ", "-", "3">>)

\* C9: a raise_for_status call leaves the native error state alone: it
\* never calls clear_error, and get_last_status() and get_last_error()
\* return after the call what they returned before it.
C9_NativeStateUntouched ==
    [][outcome'.kind # "none" =>
          /\ lastStatus' = lastStatus
          /\ lastError' = lastError
          /\ \A i \in 1 .. Len(outcome'.calls) :
                 outcome'.calls[i].fn \in {"get_last_error", "get_error_string"}]_vars

C9_Witness ==
    /\ Raised
    /\ lastStatus = -6
    /\ lastError = TxtCFLViolated
    /\ outcome.calls # <<>>

\* C10: with one shared slot, when only failing operations ran since the
\* caller's first failure and the caller translates the first failure's
\* code, the message is the one the latest failure recorded (the first
\* failure's own message when nothing intervened), while class and
\* status_code are those of the first failure's code.
C10_SlotRace ==
    (/\ Raised
     /\ history # <<>>
     /\ \A i \in 1 .. Len(history) : history[i].op = "fail"
     /\ outcome.code = history[1].code) =>
        /\ outcome.resolved = history[Len(history)].msg
        /\ outcome.error.cls = KindTable(history[1].code)
        /\ outcome.error.status_code = history[1].code
        /\ Len(history) = 1 => outcome.resolved = history[1].msg

C10_Witness ==
    /\ Raised
    /\ Len(history) = 2
    /\ history[1].op = "fail" /\ history[2].op = "fail"
    /\ history[1].code = -6 /\ history[2].code = -2
    /\ history[1].msg # history[2].msg
    /\ outcome.code = -6
    /\ outcome.error.cls = "CFDDivergedError"
    /\ outcome.error.message = history[2].msg

\* The texts the native slot can hold.
SlotTexts == {<<>>} \cup NativeMessages

\* C11: class and status_code of the raised error depend on the code alone:
\* the same code with any other context and any other slot text raises the
\* same class with the same status_code.
C11_KindDependsOnCodeOnly ==
    Raised =>
        \A context \in Contexts, slotError \in SlotTexts :
            LET other == Translate(outcome.code, context, extLoaded, slotError, NoFault)
            IN  /\ other.kind = "raised"
                /\ other.error.cls = outcome.error.cls
                /\ other.error.status_code = outcome.error.status_code

C11_Witness ==
    /\ Raised
    /\ extLoaded
    /\ outcome.code = -6
    /\ \E context \in Contexts, slotError \in SlotTexts :
           LET other == Translate(outcome.code, context, extLoaded, slotError, NoFault)
           IN  /\ context # outcome.context
               /\ slotError # lastError
               /\ other.error.message # outcome.error.message
               /\ other.error.cls = "CFDDivergedError"

\* C12: a raise_for_status call that directly follows one with the same
\* code and context (no native operation in between) ends the same way:
\* both return, or both raise errors equal in class, status_code and message.
C12_RepeatedCallSameOutcome ==
    [][(/\ outcome.kind # "none"
        /\ outcome'.kind # "none"
        /\ outcome'.code = outcome.code
        /\ outcome'.context = outcome.context) =>
           /\ outcome'.kind = outcome.kind
           /\ outcome'.error.cls = outcome.error.cls
           /\ outcome'.error.status_code = outcome.error.status_code
           /\ outcome'.error.message = outcome.error.message]_vars

C12_Witness ==
    /\ repeat
    /\ Raised
    /\ outcome.code = -6
    /\ lastError = TxtCFLViolated
    /\ outcome.error.message = TxtCFLViolated

\* C13: each of the seven classes constructed directly as
\* Class(message[, status_code]) stores both as given, status_code is -1
\* when omitted, and str() is "<message> (status=<status_code>)".
C13_DirectConstruction ==
    made.args # <<>> =>
        LET status == IF Len(made.args) = 2 THEN made.args[2] ELSE -1
        IN  /\ made.error.cls = made.cls
            /\ made.error.message = made.args[1]
            /\ made.error.status_code = status
            /\ made.error.str =
                   made.args[1] \o <<" ", "(", "s", "t", "a", "t", "u", "s", "=">>
                                \o IntToStr(status) \o <<")">>
            /\ made.args = <<TxtCFLViolated, -6>> =>
                   made.error.str =
                       <<"C", "F", "L", " ", "v", "i", "o", "l", "a", "t", "e", "d",
                         " ", "(", "s", "t", "a", "t", "u", "s", "=", "-", "6", ")">>

C13_Witness ==
    /\ made.cls = "CFDMemoryError"
    /\ made.args = <<TxtCFLViolated>>
    /\ made.error.status_code = -1
    /\ EndsWith(made.error.str, <<"(", "s", "t", "a", "t", "u", "s", "=", "-", "1", ")">>)

HostCategories == {"MemoryError", "ValueError", "OSError", "IOError", "NotImplementedError"}

\* C14: every error raise_for_status raises is caught by except CFDError;
\* -2 also by MemoryError, -3 by ValueError, -4 by OSError and IOError, -5
\* by NotImplementedError; -6 and -7 by none of these host categories; and
\* no non-generic error class derives from another one.
C14_Catchability ==
    /\ Raised =>
           /\ Catchable(outcome.error.cls, "CFDError")
           /\ Catchable(outcome.error.cls, "Exception")
           /\ outcome.code = -2 => Catchable(outcome.error.cls, "MemoryError")
           /\ outcome.code = -3 => Catchable(outcome.error.cls, "ValueError")
           /\ outcome.code = -4 =>
                  /\ Catchable(outcome.error.cls, "OSError")
                  /\ Catchable(outcome.error.cls, "IOError")
           /\ outcome.code = -5 => Catchable(outcome.error.cls, "NotImplementedError")
           /\ outcome.code \in {-6, -7} =>
                  \A h \in HostCategories : ~Catchable(outcome.error.cls, h)
    /\ \A c, d \in ErrorClasses \ {"CFDError"} : c # d => ~IsSubclass(c, d)

C14_Witness ==
    /\ Raised
    /\ outcome.code = -4
    /\ outcome.error.cls = "CFDIOError"
    /\ Catchable(outcome.error.cls, "IOError")
    /\ ~Catchable(outcome.error.cls, "ValueError")

\* The compiled module imports: it is found, it loads, and it has every
\* name load_extension imports from it.
NativeImports == env.found /\ ~env.loadFails /\ Range(ImportedNames) \subseteq env.attrs

\* The package directory holds a file named cfd_python*.pyd or cfd_python*.so.
ExtensionFilePresent == env.files \cap {File.so, File.pyd} # {}

\* The SOLVER_* attributes of the native module, in dir() order.
DiscoveredSolverNames ==
    SelectSeq(<<<<"SOLVER", "EXPLICIT", "EULER">>, <<"SOLVER", "PROJECTION">>>>, LAMBDA n : n \in env.attrs)

\* C15: load_extension returns (exports, solver_constants) when the
\* compiled module imports; raises a plain ImportError (not an
\* ExtensionNotBuiltError, message about a failed load) when the import
\* fails and an extension file is present; raises ExtensionNotBuiltError
\* when the import fails and no such file is present; the original import
\* failure is the cause of both errors.
C15_LoadExtensionOutcomes ==
    loadResult.kind # "none" =>
        /\ loadResult.kind \in {"returned", "raised"}
        /\ NativeImports =>
               /\ loadResult.kind = "returned"
               /\ loadResult.exc = <<>>
               /\ Len(loadResult.exports) > 0
        /\ ~NativeImports =>
               /\ loadResult.kind = "raised"
               /\ Len(loadResult.exc) = 1
               /\ Len(loadResult.exc[1].cause) = 1
               /\ loadResult.exc[1].cause[1].cls = "ImportError"
               /\ loadResult.exc[1].cause[1].cause = <<>>
               /\ ~env.found =>
                      loadResult.exc[1].cause[1].message =
                          <<"cannot import name 'cfd_python' from 'cfd_python'">>
        /\ (~NativeImports /\ ExtensionFilePresent) =>
               /\ loadResult.exc[1].cls = "ImportError"
               /\ ~Catchable(loadResult.exc[1].cls, "ExtensionNotBuiltError")
               /\ loadResult.exc[1].message[1] = "Failed to load cfd_python C extension: "
               /\ "This may indicate a missing dependency or ABI incompatibility."
                      \in Range(loadResult.exc[1].message)
               /\ Range(loadResult.exc[1].cause[1].message)
                      \subseteq Range(loadResult.exc[1].message)
        /\ (~NativeImports /\ ~ExtensionFilePresent) =>
               /\ loadResult.exc[1].cls = "ExtensionNotBuiltError"
               /\ Catchable(loadResult.exc[1].cls, "ImportError")

C15_Witness ==
    /\ loadResult.kind = "raised"
    /\ loadResult.exc[1].cls = "ImportError"
    /\ env.found
    /\ ~env.loadFails
    /\ env.files = {File.init, File.so, File.otherSo}

\* C16: importing the package succeeds when the extension is not built,
\* with __version__ set, __all__ the core export list and no native name
\* an attribute; it fails with a plain ImportError when an extension file
\* is present but the import fails; when the extension loads, __all__ is
\* the core export list followed by the discovered SOLVER_* names.
C16_PackageImport ==
    pkg.state # "not imported" =>
        /\ (~NativeImports /\ ~ExtensionFilePresent) =>
               /\ pkg.state = "imported"
               /\ ~pkg.loaded
               /\ <<"", "", "version", "", "">> \in DOMAIN pkg.attrs
               /\ pkg.all = CORE_EXPORTS
               /\ \A n \in Range(ImportedNames) \cup SolverNames : n \notin DOMAIN pkg.attrs
               /\ <<"list", "solvers">> \notin DOMAIN pkg.attrs
        /\ (~NativeImports /\ ExtensionFilePresent) =>
               /\ pkg.state = "failed"
               /\ Len(pkg.exc) = 1
               /\ Catchable(pkg.exc[1].cls, "ImportError")
               /\ ~Catchable(pkg.exc[1].cls, "ExtensionNotBuiltError")
        /\ NativeImports =>
               /\ pkg.state = "imported"
               /\ pkg.loaded
               /\ pkg.all = CORE_EXPORTS \o DiscoveredSolverNames

C16_Witness ==
    /\ pkg.state = "failed"
    /\ pkg.exc[1].cls = "ImportError"
    /\ ExtensionFilePresent
    /\ ~env.found

\* The names the claims single out.
DerivedAndBackendNames ==
    {<<"calculate", "field", "stats">>, <<"compute", "velocity", "magnitude">>,
     <<"compute", "flow", "statistics">>, <<"BACKEND", "SCALAR">>, <<"BACKEND", "SIMD">>,
     <<"BACKEND", "OMP">>, <<"BACKEND", "CUDA">>, <<"backend", "is", "available">>,
     <<"backend", "get", "name">>, <<"list", "solvers", "by", "backend">>,
     <<"get", "available", "backends">>}

ExceptionExportNames ==
    {<<"CFDError">>, <<"CFDMemoryError">>, <<"CFDInvalidError">>, <<"CFDIOError">>,
     <<"CFDUnsupportedError">>, <<"CFDDivergedError">>, <<"CFDMaxIterError">>,
     <<"raise", "for", "status">>}

CoreFunctionNames ==
    {<<"run", "simulation">>, <<"run", "simulation", "with", "params">>,
     <<"create", "grid">>, <<"get", "default", "solver", "params">>, <<"list", "solvers">>,
     <<"has", "solver">>, <<"get", "solver", "info">>, <<"set", "output", "dir">>,
     <<"write", "vtk", "scalar">>, <<"write", "vtk", "vector">>,
     <<"write", "csv", "timeseries">>}

OutputConstantNames ==
    {<<"OUTPUT", "PRESSURE">>, <<"OUTPUT", "VELOCITY">>, <<"OUTPUT", "FULL", "FIELD">>,
     <<"OUTPUT", "CSV", "TIMESERIES">>, <<"OUTPUT", "CSV", "CENTERLINE">>,
     <<"OUTPUT", "CSV", "STATISTICS">>}

\* C17: when the extension loads, every name of __all__ is an attribute of
\* the package, and the derived-field and backend names are in __all__.
C17_AllNamesResolvable ==
    pkg.loaded =>
        /\ DerivedAndBackendNames \subseteq Range(pkg.all)
        /\ \A n \in Range(pkg.all) : n \in DOMAIN pkg.attrs

\* C18: the seven exception classes and raise_for_status are in __all__
\* and are attributes of the imported package.
C18_ExceptionsExported ==
    pkg.state = "imported" =>
        \A n \in ExceptionExportNames :
            /\ n \in Range(pkg.all)
            /\ n \in DOMAIN pkg.attrs

\* C19: on a successful load solver_constants holds exactly the native
\* module's attributes whose names start with SOLVER_, each mapped to the
\* native module's value; the package has each as an attribute and lists
\* each in __all__.
C19_SolverConstantsDiscovered ==
    /\ loadResult.kind = "returned" =>
           /\ KeySet(loadResult.solver_constants) = env.attrs \cap SolverNames
           /\ Len(loadResult.solver_constants) = Cardinality(env.attrs \cap SolverNames)
           /\ \A i \in DOMAIN loadResult.solver_constants :
                  loadResult.solver_constants[i].value =
                      Native(loadResult.solver_constants[i].key)
    /\ pkg.loaded =>
           \A n \in env.attrs \cap SolverNames :
               /\ n \in DOMAIN pkg.attrs
               /\ pkg.attrs[n] = Native(n)
               /\ n \in Range(pkg.all)

C19_Witness ==
    /\ loadResult.kind = "returned"
    /\ Len(loadResult.solver_constants) = 2
    /\ <<"SOLVERS", "COUNT">> \in env.attrs
    /\ pkg.loaded
    /\ <<"SOLVER", "PROJECTION">> \in DOMAIN pkg.attrs

\* C20: the exports dict holds every core function and every output
\* constant (OUTPUT_PRESSURE among them), and the output constants are all
\* in __all__.
C20_CoreExportsPresent ==
    /\ loadResult.kind = "returned" =>
           CoreFunctionNames \cup OutputConstantNames
               \subseteq KeySet(loadResult.exports)
    /\ pkg.state = "imported" => OutputConstantNames \subseteq Range(pkg.all)

\* The distribution metadata yields a version.
MetadataPresent == env.importlib /\ env.metadata # <<>>

\* "from . import cfd_python" succeeds.
NativeImportable == env.found /\ ~env.loadFails

\* C21: get_version() never raises and returns a non-empty string, with
\* the metadata present, with the metadata absent and the native module
\* importable, and with neither available.
C21_GetVersionNeverRaises ==
    versionResult.kind # "none" =>
        /\ versionResult.kind = "returned"
        /\ versionResult.exc = <<>>
        /\ versionResult.value # NoValue
        /\ Len(versionResult.value.name) > 0
        /\ versionResult.value.origin = "str" => versionResult.value.name[1] # ""
        /\ versionResult.value.origin \in {"str", "cfd_python.cfd_python"}

C21_Witness ==
    /\ versionResult.kind = "returned"
    /\ ~MetadataPresent
    /\ ~NativeImportable
    /\ versionResult.value = Literal("0.0.0-dev")

\* The entries of the listings that are named cfd_python*.pyd or cfd_python*.so.
MatchingFiles == {File.so, File.pyd, File.abiPyd, File.abiSo}

\* C24: _check_extension_exists() is True iff an entry of the package
\* directory starts with "cfd_python" and ends with ".pyd" or ".so";
\* other-prefixed libraries and cfd_python* files of another suffix never
\* make it True.
C24_ExtensionDetection ==
    existsResult # <<>> =>
        /\ existsResult[1] = (env.files \cap MatchingFiles # {})
        /\ env.files \subseteq {File.init, File.version, File.pyi, File.backup,
                                   File.otherSo, File.otherModuleSo}
               => existsResult[1] = FALSE

C24_Witness ==
    /\ existsResult = <<FALSE>>
    /\ File.otherModuleSo \in env.files
    /\ File.backup \in env.files
    /\ File.pyi \in env.files

\* C25: get_version() returns the metadata version when found, without
\* consulting the native module; otherwise the native module's __version__,
\* or "0.0.0" when the module imports without one; otherwise "0.0.0-dev".
C25_VersionPrecedence ==
    versionResult.kind # "none" =>
        /\ MetadataPresent =>
               /\ versionResult.value = env.metadata[1]
               /\ ~versionResult.consulted
        /\ (~MetadataPresent /\ NativeImportable) =>
               /\ versionResult.consulted
               /\ <<"", "", "version", "", "">> \in env.attrs => versionResult.value = Native(<<"", "", "version", "", "">>)
               /\ <<"", "", "version", "", "">> \notin env.attrs => versionResult.value = Literal("0.0.0")
        /\ (~MetadataPresent /\ ~NativeImportable) =>
               versionResult.value = Literal("0.0.0-dev")

C25_Witness ==
    /\ versionResult.kind = "returned"
    /\ MetadataPresent
    /\ NativeImportable
    /\ <<"", "", "version", "", "">> \in env.attrs
    /\ versionResult.value = Literal("0.1.6")

\* The commands the script has started, in order.
DevCommands == SelectSeq(dev.trace, LAMBDA e : e.ev = "run")

\* The functions the script has entered, in order.
DevCalls == SelectSeq(dev.trace, LAMBDA e : e.ev = "call")

IsPipInstall(cmd) ==
    \E i \in 1 .. (Len(cmd) - 1) : cmd[i] = "pip" /\ cmd[i + 1] = "install"

\* C22: the 'build' command builds only: it never starts a pip install.
C22_BuildDoesNotInstall ==
    dev.command = "build" =>
        \A i \in DOMAIN DevCommands : ~IsPipInstall(DevCommands[i].what)

Position(name) ==
    IF \E i \in DOMAIN DevCalls : DevCalls[i].what = <<name>>
    THEN CHOOSE i \in DOMAIN DevCalls : DevCalls[i].what = <<name>>
    ELSE 0

Printed(text) == \E i \in DOMAIN dev.trace : dev.trace[i] = Event("print", <<text>>, 0)

RanWith(cmd, ok) ==
    \E i \in DOMAIN DevCommands :
        DevCommands[i].what = cmd /\ (DevCommands[i].rc = 0) = ok

\* C23: 'all' enters clean, the C-library build, the development install
\* and verify in that order; test is entered only after verify succeeded;
\* a failed verify ends the script with status 1 and no test; "Done!" is
\* printed only when every step before it succeeded.
C23_AllSequence ==
    dev.command = "all" =>
        /\ \A i \in DOMAIN DevCalls :
               DevCalls[i].what =
                   <<(<<"clean", "build_cfd_library", "develop", "verify", "test">>[i])>>
        /\ Position("test") # 0 => RanWith(Cmd.verifyCommand, TRUE)
        /\ (RanWith(Cmd.verifyCommand, FALSE) /\ dev.status = "exited") =>
               /\ dev.exitCode = 1
               /\ Position("test") = 0
               /\ ~RanWith(Cmd.pytest, TRUE) /\ ~RanWith(Cmd.pytest, FALSE)
        /\ RanWith(Cmd.verifyCommand, FALSE) => ~Printed("Done!")
        /\ Printed("Done!") =>
               /\ Len(DevCalls) = 5
               /\ \A i \in DOMAIN DevCommands : DevCommands[i].rc = 0
               /\ RanWith(Cmd.pipDevelop, TRUE) /\ RanWith(Cmd.verifyCommand, TRUE)
               /\ RanWith(Cmd.pytest, TRUE)

C23_Witness ==
    /\ dev.command = "all"
    /\ dev.status = "exited"
    /\ dev.exitCode = 1
    /\ RanWith(Cmd.verifyCommand, FALSE)
    /\ Printed("ERROR: Verification failed")

\* clean() has run.
Cleaned == \E i \in DOMAIN DevCalls : DevCalls[i].what = <<"clean">>

\* The file lies under a virtual-environment directory: a component of
\* its path is named .venv, venv, .env, env, virtualenv or .virtualenv.
UnderVenvDirectory(p) ==
    \E part \in Range(dev.root) \cup Range(p) :
        part \in {Name.dotVenv, Name.venv, Name.dotEnv, Name.env, Name.virtualenv,
                  Name.dotVirtualenv}

\* The file lies in a directory clean() removes whole.
InRemovedDirectory(p) ==
    \/ p[1] \in {Name.build, Name.dist, Name.wheelhouse, Name.eggInfo, Name.pytestCache}
    \/ \E i \in 1 .. (Len(p) - 1) : p[i] = Name.pycache

\* C27 as stated: clean() deletes no .pyd/.so file under a
\* virtual-environment directory and deletes every other .pyd/.so file.
C27_CleanSparesVenvs ==
    Cleaned =>
        \A p \in dev.fsBefore :
            IsLibrary(p) => (p \in dev.fs <=> UnderVenvDirectory(p))

\* C27 amended: a .pyd/.so file under a virtual-environment directory is
\* kept unless it lies in a directory clean() removes whole (build, dist,
\* wheelhouse, cfd_python.egg-info, .pytest_cache, any __pycache__); every
\* other .pyd/.so file is deleted.
C27_CleanSparesVenvsOutsideRemovedDirs ==
    Cleaned =>
        \A p \in dev.fsBefore :
            IsLibrary(p) =>
                (p \in dev.fs <=> (UnderVenvDirectory(p) /\ ~InRemovedDirectory(p)))

C27_Witness ==
    /\ Cleaned
    /\ dev.root = <<Name.home, Name.project>>
    /\ dev.fsBefore = ProjectFiles
    /\ dev.fs = {<<Name.package, File.init>>, <<Name.dotVenv, Name.lib, Name.coreSo>>,
                 <<Name.env, Name.pythonPyd>>}

\* run(cmd) of every command but verify's is called with check=True.
Checked(cmd) == cmd # Cmd.verifyCommand

\* C28: a command run with check=True that exits non-zero ends the script
\* at once with the same code, and no later command is started; after a
\* failed cmake configure no cmake build runs, after a failed C-library
\* build no install runs; build_cfd_library exits with status 1 before
\* any command when the C library directory does not exist.
C28_FailedCommandStopsScript ==
    /\ \A i \in DOMAIN DevCommands :
           (Checked(DevCommands[i].what) /\ DevCommands[i].rc # 0) =>
               /\ i = Len(DevCommands)
               /\ dev.status = "exited"
               /\ dev.exitCode = DevCommands[i].rc
    /\ RanWith(Cmd.cmakeConfigure, FALSE) =>
           ~RanWith(Cmd.cmakeBuild, TRUE) /\ ~RanWith(Cmd.cmakeBuild, FALSE)
    /\ (RanWith(Cmd.buildSh, FALSE) \/ RanWith(Cmd.cmakeBuild, FALSE)) =>
           \A i \in DOMAIN DevCommands : ~IsPipInstall(DevCommands[i].what)
    /\ ((\E i \in DOMAIN DevCalls : DevCalls[i].what = <<"build_cfd_library">>)
            /\ ~dev.cfdRoot) =>
           /\ DevCommands = <<>>
           /\ dev.status = "exited" => dev.exitCode = 1
           /\ ~Printed("Done!")

C28_Witness ==
    /\ dev.command = "install"
    /\ dev.status = "exited"
    /\ dev.exitCode = 2
    /\ DevCommands = <<Event("run", Cmd.cmakeConfigure, 2)>>

\* C29: main() runs the five steps in the listed order, a step only after
\* every earlier one returned true; the first step returning false or
\* raising an Exception ends the sequence, the exception does not leave
\* main, and main returns False; main returns True iff all five returned
\* true.
C29_DistributionSteps ==
    /\ \A i \in DOMAIN dist.log :
           /\ dist.log[i].step = StepNames[i]
           /\ i < Len(dist.log) => dist.log[i].outcome.kind = "true"
    /\ \A i \in DOMAIN dist.log :
           (\/ dist.log[i].outcome.kind = "false"
            \/ /\ dist.log[i].outcome.kind = "raised"
               /\ dist.log[i].outcome.cls \in {"OSError", "CalledProcessError"}) =>
               /\ i = Len(dist.log)
               /\ dist.status = "returned"
               /\ dist.result = <<FALSE>>
               /\ dist.exc = <<>>
    /\ dist.status = "returned" =>
           (dist.result = <<TRUE>> <=>
               /\ Len(dist.log) = 5
               /\ \A i \in DOMAIN dist.log : dist.log[i].outcome.kind = "true")

C29_Witness ==
    /\ dist.status = "returned"
    /\ dist.result = <<FALSE>>
    /\ Len(dist.log) = 4
    /\ dist.log[4].outcome = StepRaised("CalledProcessError")
    /\ dist.log[4].input.rcs = <<0, 1, 0>>

RaiseCalls == {i \in DOMAIN study.trace : study.trace[i].fn = "raise_for_status"}

\* C26: in the example callers raise_for_status is called only with the
\* value get_last_status() has just returned after the simulation call,
\* only when it differs from CFD_SUCCESS and with no other call into the
\* native layer in between; every CFDError it raises is caught by the caller.
C26_CallersTranslatePromptly ==
    /\ \A i \in RaiseCalls :
           /\ i >= 3
           /\ study.trace[i - 1].fn = "get_last_status"
           /\ study.trace[i - 2].fn = "run_simulation_with_params"
           /\ study.trace[i].value = study.trace[i - 1].value
           /\ study.trace[i].value # <<CFD_SUCCESS>>
    /\ study.status = "raised" => ~IsSubclass(study.exc, "CFDError")
    /\ (RaiseCalls # {} /\ outcome.kind = "raised") =>
           /\ study.handler # "none"
           /\ Catchable(outcome.error.cls, study.handler)

C26_Witness ==
    /\ study.caller = "safe_simulation"
    /\ study.status = "returned"
    /\ study.result = "None"
    /\ RaiseCalls # {}
    /\ outcome.kind = "raised"
    /\ outcome.error.cls = "CFDMemoryError"
    /\ study.handler = "CFDError"

Ascending(s) == \A i, j \in DOMAIN s : i < j => s[i] < s[j]

StudyOver == study.caller = "run_cavity_simulation" /\ study.status \in {"returned", "raised"}

\* C30: the samples of run_cavity_simulation are ascending, at most steps
\* and end with steps; a CFDError at a sample stops the study there, the
\* final VTK file is written only when the last sample completed, and the
\* function still returns its results dict, whichever sample failed.
C30_StudyStopsAndReturns ==
    study.caller = "run_cavity_simulation" =>
        /\ Ascending(SampleSteps(study.steps))
        /\ \A i \in DOMAIN SampleSteps(study.steps) : SampleSteps(study.steps)[i] <= study.steps
        /\ SampleSteps(study.steps)[Len(SampleSteps(study.steps))] = study.steps
        /\ study.ran = SubSeq(SampleSteps(study.steps), 1, Len(study.ran))
        /\ study.failed # <<>> => Len(study.ran) = study.failed[1]
        /\ study.vtk # <<>> => study.failed = <<>> /\ study.vtk = <<study.steps>>
        /\ StudyOver => study.status = "returned" /\ study.result = "dict"

====
